---- MODULE Spec2Model ----
(***************************************************************************)
(* Publish-candidate pipeline of the news bot: image validation            *)
(* (validateAndTestImage), best-candidate selection (pickBestArticle),     *)
(* tweet composition (createTweetText, link and hashtag variants) and      *)
(* the publish step (postToX); the handlers that run the pipeline, the     *)
(* news API fetchers with their retry loop, and the versions of postToX    *)
(* that test the destination link on the platform.                         *)
(*                                                                         *)
(* Text is a sequence of one-character strings; an absent, null or empty   *)
(* JavaScript string is the empty sequence (the code only ever tests such  *)
(* fields for truthiness).                                                 *)
(***************************************************************************)
EXTENDS Integers, Sequences, FiniteSets, TLC

VARIABLES
  cIn,       \* createTweetText: the article and the destination link
  cOut,      \* createTweetText: the text returned, once composed
  cEnv,      \* createTweetText: the clock and what earlier calls left behind
  vIn,       \* validateAndTestImage: the URL and what its origin answers
  vOut,      \* validateAndTestImage: the result and the requests issued
  batch,     \* pickBestArticle: the articles argument
  web,       \* what the origin of each image URL answers
  sorted,    \* pickBestArticle: the filtered, sorted candidates
  idx,       \* pickBestArticle: the loop index i
  tried,     \* pickBestArticle: the validations done so far
  picked,    \* pickBestArticle: the value returned
  spc,       \* pickBestArticle: position
  article,   \* postToX: the article argument
  platform,  \* postToX: what the image origin and the platform will answer
  ppc,       \* postToX: position
  tweetText, \* postToX: the composed text
  imageBuffer, \* postToX: the buffer to upload
  mediaId,   \* postToX: the media handle
  calls,     \* postToX: the platform and network calls issued, in order
  outcome,   \* postToX: what the call produced
  hIn,       \* handler: what the run scrapes, the store before it, the configuration
  hpc,       \* handler: where the run stands
  hIdx,      \* handler: articles of the current loop already processed
  validSportsArticles,  \* handler: the new sports articles of the run
  bestArticlePosted,    \* handler: title, tweet id and URL of the article posted
  stored,    \* handler: the documents created in the store by the run
  twitterPosts,         \* handler: the count reported in the response
  postToXCalls,         \* handler: calls of postToX made by the run
  req,       \* dual-API handler: the request
  news,      \* dual-API handler: what fetchEntertainment and fetchSports returned
  dpc,       \* dual-API handler: where the run stands
  bestArticle,          \* dual-API handler: the value of pickBestArticle(...)
  twitterSuccess,       \* dual-API handler: the flag reported as twitterPosted
  res,       \* dual-API handler: the response sent
  fIn,       \* fetchFromNewsAPI, fetchFromNewsData: the arguments and the API's answers
  fpc,       \* fetchFromNewsAPI, fetchFromNewsData: position
  attempt,   \* fetchFromNewsAPI, fetchFromNewsData: the loop index i
  requests,  \* fetchFromNewsAPI, fetchFromNewsData: the requests issued, in order
  fOut       \* fetchFromNewsAPI, fetchFromNewsData: what the call produced

composeVars  == <<cIn, cOut, cEnv>>
validateVars == <<vIn, vOut>>
selectVars   == <<batch, web, sorted, idx, tried, picked, spc>>
publishVars  == <<article, platform, ppc, tweetText, imageBuffer, mediaId, calls, outcome>>
handlerVars  == <<hIn, hpc, hIdx, validSportsArticles, bestArticlePosted, stored,
                  twitterPosts, postToXCalls>>
dualVars     == <<req, news, dpc, bestArticle, twitterSuccess, res>>
fetchVars    == <<fIn, fpc, attempt, requests, fOut>>
vars == <<composeVars, validateVars, selectVars, publishVars, handlerVars, dualVars,
          fetchVars>>

----------------------------------------------------------------------------
(* JavaScript string primitives                                            *)

Whitespace == {" ", "\n", "\t"}
SentenceEnd == {".", "!", "?"}

Min(a, b) == IF a < b THEN a ELSE b
Max(a, b) == IF a > b THEN a ELSE b

\* the text of n copies of the character c
Rep(c, n) == [i \in 1..n |-> c]

\* n characters of seven-letter words
Words(n) == [i \in 1..n |-> IF i % 8 = 0 THEN " " ELSE "w"]

\* concatenation of f[lo] \o ... \o f[hi], by halving
RECURSIVE CatRange(_, _, _)
CatRange(f, lo, hi) ==
  IF lo > hi THEN <<>>
  ELSE IF lo = hi THEN f[lo]
  ELSE LET mid == (lo + hi) \div 2
       IN CatRange(f, lo, mid) \o CatRange(f, mid + 1, hi)

\* String.prototype.substring(0, n): n below 0 counts as 0, above the length as the length
Substring0(s, n) == SubSeq(s, 1, Min(Max(n, 0), Len(s)))

\* String.prototype.trim
Trim(s) ==
  LET keep == {i \in 1..Len(s) : s[i] \notin Whitespace}
  IN IF keep = {} THEN <<>>
     ELSE SubSeq(s, CHOOSE i \in keep : \A j \in keep : i <= j,
                    CHOOSE i \in keep : \A j \in keep : i >= j)

\* String.prototype.startsWith / endsWith / includes
StartsWith(s, p) == Len(s) >= Len(p) /\ SubSeq(s, 1, Len(p)) = p
EndsWith(s, p) == Len(s) >= Len(p) /\ SubSeq(s, Len(s) - Len(p) + 1, Len(s)) = p
MatchAt(s, i, p) == i >= 1 /\ i + Len(p) - 1 <= Len(s) /\ SubSeq(s, i, i + Len(p) - 1) = p
Includes(s, p) == \E i \in 1..(Len(s) - Len(p) + 1) : MatchAt(s, i, p)

Upper == <<"A", "B", "C", "D", "E", "F", "G", "H", "I", "J", "K", "L", "M", "N", "O", "P", "Q", "R", "S", "T", "U", "V", "W", "X", "Y", "Z">>
Lower == <<"a", "b", "c", "d", "e", "f", "g", "h", "i", "j", "k", "l", "m", "n", "o", "p", "q", "r", "s", "t", "u", "v", "w", "x", "y", "z">>
\* String.prototype.toLowerCase
ToLowerCase(s) ==
  [i \in 1..Len(s) |->
     IF \E k \in 1..26 : Upper[k] = s[i]
     THEN Lower[CHOOSE k \in 1..26 : Upper[k] = s[i]]
     ELSE s[i]]

\* Array.prototype.join
RECURSIVE Join(_, _)
Join(parts, sep) ==
  IF Len(parts) = 0 THEN <<>>
  ELSE IF Len(parts) = 1 THEN parts[1]
  ELSE parts[1] \o sep \o Join(Tail(parts), sep)

\* Array.prototype.slice(0, n)
Slice0(a, n) == SubSeq(a, 1, Min(n, Len(a)))

----------------------------------------------------------------------------
(* Bounds of the inputs explored                                           *)

MaxTitleLen == 300       \* the longest title composed
MaxLinkLen == 290        \* the longest destination link
MaxBodyLen == 400        \* the longest body without punctuation
MaxDots == 52            \* the words of the body made of punctuation only
MaxImageLen == 51200     \* the size of the ordinary image payloads
MaxBatch == 6            \* the longest batch handed to pickBestArticle
MaxUploadScript == 3     \* the upload answers the platform has ready
MaxTweetCalls == 3       \* the tweet calls one run may issue

----------------------------------------------------------------------------
(* createTweetText: cleaning of the body and the snippet                   *)

\* /https?:\/\/[^\s]+/ matches at position i
UrlAt(s, i) ==
  \/ MatchAt(s, i, <<"h", "t", "t", "p", ":", "/", "/">>) /\ i + 7 <= Len(s) /\ s[i + 7] \notin Whitespace
  \/ MatchAt(s, i, <<"h", "t", "t", "p", "s", ":", "/", "/">>) /\ i + 8 <= Len(s) /\ s[i + 8] \notin Whitespace

\* .replace(/https?:\/\/[^\s]+/g, '')
RECURSIVE RemoveUrls(_)
RemoveUrls(s) ==
  LET starts == {i \in 1..Len(s) : UrlAt(s, i)}
  IN IF starts = {} THEN s
     ELSE LET i == CHOOSE a \in starts : \A b \in starts : a <= b
              ws == {j \in i..Len(s) : s[j] \in Whitespace}
              e == IF ws = {} THEN Len(s) + 1
                   ELSE CHOOSE a \in ws : \A b \in ws : a <= b
          IN SubSeq(s, 1, i - 1) \o RemoveUrls(SubSeq(s, e, Len(s)))

\* the "]" closing a /\[.*?\]/ match that opens at i, or 0 (. does not match a line break)
BracketClose(s, i) ==
  LET ends == {j \in (i + 1)..Len(s) :
                 s[j] = "]" /\ \A k \in (i + 1)..(j - 1) : s[k] # "\n"}
  IN IF s[i] # "[" \/ ends = {} THEN 0
     ELSE CHOOSE a \in ends : \A b \in ends : a <= b

\* .replace(/\[.*?\]/g, '')
RECURSIVE RemoveBrackets(_)
RemoveBrackets(s) ==
  LET starts == {i \in 1..Len(s) : BracketClose(s, i) # 0}
  IN IF starts = {} THEN s
     ELSE LET i == CHOOSE a \in starts : \A b \in starts : a <= b
          IN SubSeq(s, 1, i - 1)
               \o RemoveBrackets(SubSeq(s, BracketClose(s, i) + 1, Len(s)))

\* .replace(/\s+/g, ' ')
CollapseWhitespace(s) ==
  CatRange([i \in 1..Len(s) |->
              IF s[i] \notin Whitespace THEN <<s[i]>>
              ELSE IF i > 1 /\ s[i - 1] \in Whitespace THEN <<>>
              ELSE <<" ">>], 1, Len(s))

CleanContent(source) == Trim(CollapseWhitespace(RemoveBrackets(RemoveUrls(source))))

\* String.prototype.split on the characters of seps, runs of them counting as one
\* separator when runs is TRUE (/[.!?]+/), each one separately otherwise (' ')
RECURSIVE Split(_, _, _)
Split(s, seps, runs) ==
  LET at == {i \in 1..Len(s) : s[i] \in seps}
  IN IF at = {} THEN <<s>>
     ELSE LET i == CHOOSE a \in at : \A b \in at : a <= b
              after == {j \in i..Len(s) : s[j] \notin seps}
              n == IF ~runs THEN i + 1
                   ELSE IF after = {} THEN Len(s) + 1
                   ELSE CHOOSE a \in after : \A b \in after : a <= b
          IN <<SubSeq(s, 1, i - 1)>> \o Split(SubSeq(s, n, Len(s)), seps, runs)

NonBlank(s) == Len(Trim(s)) > 0

\* cleanContent.split(/[.!?]+/).filter(s => s.trim().length > 0)
Sentences(cleanContent) == SelectSeq(Split(cleanContent, SentenceEnd, TRUE), NonBlank)

EndsWithSentenceEnd(s) == Len(s) > 0 /\ s[Len(s)] \in SentenceEnd

WordCap == 50

\* the snippet createTweetText starts from: the first two sentences, else the first 50 words
Snippet(source) ==
  LET Closed(s) == IF EndsWithSentenceEnd(s) THEN s ELSE s \o <<".">>
      FromWords(words) ==
        IF Len(words) > WordCap
        THEN Join(Slice0(words, WordCap), <<" ">>) \o <<".", ".", ".">>
        ELSE Join(Slice0(words, WordCap), <<" ">>)
      From(cleanContent, sentences) ==
        IF Len(sentences) > 0
        THEN Closed(Trim(Join(Slice0(sentences, 2), <<".", " ">>)))
        ELSE FromWords(Split(cleanContent, {" "}, FALSE))
      Of(cleanContent) == From(cleanContent, Sentences(cleanContent))
  IN IF Len(source) = 0 THEN <<>> ELSE Of(CleanContent(source))

\* article.content || article.description || ''
Source(a) == IF Len(a.content) > 0 THEN a.content ELSE a.description

maxTweetLength == 280
separatorSpace == 4

\* snippet.substring(0, availableForSnippet - 3).trim() + '...', when the snippet is too long
FitSnippet(snippet, availableForSnippet) ==
  IF Len(snippet) > availableForSnippet
  THEN Trim(Substring0(snippet, availableForSnippet - 3)) \o <<".", ".", ".">>
  ELSE snippet


----------------------------------------------------------------------------
(* selectSmartHashtags                                                     *)

\* the sports rules, in the order of the code: a pattern's alternatives and the tags it pushes
SportsRules == <<
  [keys |-> {<<"m", "e", "s", "s", "i">>, <<"r", "o", "n", "a", "l", "d", "o">>, <<"n", "e", "y", "m", "a", "r">>, <<"m", "b", "a", "p", "p", "e">>},      tags |-> <<<<"#", "G", "O", "A", "T">>>>],
  [keys |-> {<<"c", "h", "a", "m", "p", "i", "o", "n", "s", " ", "l", "e", "a", "g", "u", "e">>, <<"u", "c", "l">>},                   tags |-> <<<<"#", "U", "C", "L">>, <<"#", "C", "h", "a", "m", "p", "i", "o", "n", "s", "L", "e", "a", "g", "u", "e">>>>],
  [keys |-> {<<"p", "r", "e", "m", "i", "e", "r", " ", "l", "e", "a", "g", "u", "e">>, <<"e", "p", "l">>},                     tags |-> <<<<"#", "P", "r", "e", "m", "i", "e", "r", "L", "e", "a", "g", "u", "e">>, <<"#", "E", "P", "L">>>>],
  [keys |-> {<<"w", "o", "r", "l", "d", " ", "c", "u", "p">>, <<"f", "i", "f", "a">>},                         tags |-> <<<<"#", "W", "o", "r", "l", "d", "C", "u", "p">>, <<"#", "F", "I", "F", "A">>>>],
  [keys |-> {<<"b", "a", "r", "c", "e", "l", "o", "n", "a">>, <<"b", "a", "r", "c", "a">>},                        tags |-> <<<<"#", "B", "a", "r", "c", "e", "l", "o", "n", "a">>, <<"#", "B", "a", "r", "c", "a">>>>],
  [keys |-> {<<"r", "e", "a", "l", " ", "m", "a", "d", "r", "i", "d">>},                               tags |-> <<<<"#", "R", "e", "a", "l", "M", "a", "d", "r", "i", "d">>, <<"#", "H", "a", "l", "a", "M", "a", "d", "r", "i", "d">>>>],
  [keys |-> {<<"m", "a", "n", "c", "h", "e", "s", "t", "e", "r", " ", "u", "n", "i", "t", "e", "d">>, <<"m", "a", "n", " ", "u", "t", "d">>},              tags |-> <<<<"#", "M", "U", "F", "C">>, <<"#", "M", "a", "n", "U", "t", "d">>>>],
  [keys |-> {<<"l", "i", "v", "e", "r", "p", "o", "o", "l">>},                                 tags |-> <<<<"#", "L", "F", "C">>, <<"#", "L", "i", "v", "e", "r", "p", "o", "o", "l">>>>],
  [keys |-> {<<"a", "r", "s", "e", "n", "a", "l">>},                                   tags |-> <<<<"#", "A", "r", "s", "e", "n", "a", "l">>, <<"#", "A", "F", "C">>>>],
  [keys |-> {<<"c", "h", "e", "l", "s", "e", "a">>},                                   tags |-> <<<<"#", "C", "h", "e", "l", "s", "e", "a">>, <<"#", "C", "F", "C">>>>],
  [keys |-> {<<"t", "r", "a", "n", "s", "f", "e", "r">>, <<"s", "i", "g", "n", "i", "n", "g">>, <<"d", "e", "a", "l">>},               tags |-> <<<<"#", "T", "r", "a", "n", "s", "f", "e", "r", "N", "e", "w", "s">>>>],
  [keys |-> {<<"i", "n", "j", "u", "r", "y">>, <<"i", "n", "j", "u", "r", "e", "d">>},                         tags |-> <<<<"#", "I", "n", "j", "u", "r", "y", "U", "p", "d", "a", "t", "e">>>>],
  [keys |-> {<<"g", "o", "a", "l">>, <<"s", "c", "o", "r", "e", "d">>, <<"h", "a", "t", "t", "r", "i", "c", "k">>},                tags |-> <<<<"#", "G", "o", "a", "l", "s">>>>] >>

\* the contextual rules, applied to every category
GeneralRules == <<
  [keys |-> {<<"b", "r", "e", "a", "k", "i", "n", "g">>, <<"j", "u", "s", "t", " ", "i", "n">>, <<"u", "p", "d", "a", "t", "e">>},             tags |-> <<<<"#", "B", "r", "e", "a", "k", "i", "n", "g", "N", "e", "w", "s">>>>],
  [keys |-> {<<"v", "i", "r", "a", "l">>, <<"t", "r", "e", "n", "d", "i", "n", "g">>},                         tags |-> <<<<"#", "V", "i", "r", "a", "l">>>>],
  [keys |-> {<<"s", "h", "o", "c", "k", "i", "n", "g">>, <<"u", "n", "b", "e", "l", "i", "e", "v", "a", "b", "l", "e">>, <<"a", "m", "a", "z", "i", "n", "g">>},       tags |-> <<<<"#", "S", "h", "o", "c", "k", "i", "n", "g">>>>] >>

\* /hat.?trick/: "hat", one optional character that is no line break, "trick"
HatTrickAt(s, i) ==
  MatchAt(s, i, <<"h", "a", "t">>) /\ MatchAt(s, i + 4, <<"t", "r", "i", "c", "k">>) /\ s[i + 3] \notin {"\n"}

RuleMatches(rule, fullText) ==
  \/ \E k \in rule.keys : Includes(fullText, k)
  \/ <<"h", "a", "t", "t", "r", "i", "c", "k">> \in rule.keys /\ \E i \in 1..Len(fullText) : HatTrickAt(fullText, i)

\* the tags pushed by the rules that match, in rule order
PushedBy(rules, fullText) ==
  CatRange([r \in 1..Len(rules) |->
              IF RuleMatches(rules[r], fullText) THEN rules[r].tags ELSE <<>>],
           1, Len(rules))

\* [...new Set(hashtags)]: the first occurrence of each tag, in order
UniqueTags(hashtags) ==
  CatRange([i \in 1..Len(hashtags) |->
              IF \E j \in 1..(i - 1) : hashtags[j] = hashtags[i] THEN <<>>
              ELSE <<hashtags[i]>>], 1, Len(hashtags))

MaxTags == 4

\* a variant that joins every tag pushed, without the set and without the slice
SelectedTags_AllPushed(a) ==
  LET Sports(specific) ==
        IF a.category \in {"sport", "sports"}
        THEN (IF Len(specific) = 0 THEN <<<<"#", "F", "o", "o", "t", "b", "a", "l", "l">>, <<"#", "S", "o", "c", "c", "e", "r">>>> ELSE specific)
               \o <<<<"#", "S", "p", "o", "r", "t", "s">>>>
        ELSE <<>>
      Hashtags(fullText) ==
        Sports(PushedBy(SportsRules, fullText)) \o PushedBy(GeneralRules, fullText)
  IN Hashtags(ToLowerCase(a.title) \o <<" ">> \o ToLowerCase(Source(a)))

\* the list selectSmartHashtags joins: the pushed tags, deduplicated, the first 4
SelectedTags(a) ==
  LET Sports(specific) ==
        IF a.category \in {"sport", "sports"}
        THEN (IF Len(specific) = 0 THEN <<<<"#", "F", "o", "o", "t", "b", "a", "l", "l">>, <<"#", "S", "o", "c", "c", "e", "r">>>> ELSE specific)
               \o <<<<"#", "S", "p", "o", "r", "t", "s">>>>
        ELSE <<>>
      Hashtags(fullText) ==
        Sports(PushedBy(SportsRules, fullText)) \o PushedBy(GeneralRules, fullText)
  IN Slice0(UniqueTags(Hashtags(ToLowerCase(a.title) \o <<" ">> \o ToLowerCase(Source(a)))),
            MaxTags)

selectSmartHashtags(a) == Join(SelectedTags(a), <<" ">>)

----------------------------------------------------------------------------
(* createTweetText                                                         *)

\* title.substring(0, n).trim() + '...'
TruncatedTitle(title, n) == Trim(Substring0(title, n)) \o <<".", ".", ".">>

\* api/twitter_bot.js: title, snippet and hashtags, no link
createTweetTextTags(a) ==
  LET Compose(title, snippet, hashtags) ==
        LET hashtagSpace == IF Len(hashtags) > 0 THEN Len(hashtags) + 2 ELSE 0
            titleSpace == Len(title)
            availableForSnippet ==
              maxTweetLength - titleSpace - separatorSpace - hashtagSpace
            Strategy(fitted) ==
              IF Len(snippet) > 0 /\ availableForSnippet > 50
              THEN [text |-> IF Len(hashtags) > 0
                             THEN title \o <<"\n", "\n">> \o fitted \o <<"\n", "\n">> \o hashtags
                             ELSE title \o <<"\n", "\n">> \o fitted,
                    snippet |-> fitted]
              ELSE IF Len(hashtags) > 0 /\ titleSpace + hashtagSpace + 2 <= maxTweetLength
              THEN [text |-> title \o <<"\n", "\n">> \o hashtags, snippet |-> snippet]
              ELSE [text |-> IF Len(title) > maxTweetLength - 3
                             THEN TruncatedTitle(title, maxTweetLength - 3)
                             ELSE title,
                    snippet |-> snippet]
            SafetyCheck(first) ==
              IF Len(first.text) > maxTweetLength
              THEN IF Len(title \o <<"\n", "\n">> \o first.snippet) <= maxTweetLength
                   THEN title \o <<"\n", "\n">> \o first.snippet
                   ELSE TruncatedTitle(title, maxTweetLength - 3)
              ELSE first.text
        IN SafetyCheck(Strategy(FitSnippet(snippet, availableForSnippet)))
  IN Compose(a.title, Snippet(Source(a)), selectSmartHashtags(a))

\* the tail of the link variant
ReadMore(postUrl) == <<"\n", "\n", "R", "e", "a", "d", " ", "m", "o", "r", "e", ":", " ">> \o postUrl

\* api/test.js: title, snippet and "Read more" link
createTweetTextLink(a, postUrl) ==
  LET Compose(title, snippet, readMore) ==
        LET availableForSnippet ==
              maxTweetLength - Len(title) - Len(readMore) - separatorSpace
            SafetyCheck(first) ==
              IF Len(first) > maxTweetLength
              THEN TruncatedTitle(title, maxTweetLength - Len(readMore) - 3) \o readMore
              ELSE first
        IN SafetyCheck(
             IF Len(snippet) > 0 /\ availableForSnippet > 50
             THEN title \o <<"\n", "\n">> \o FitSnippet(snippet, availableForSnippet) \o readMore
             ELSE IF availableForSnippet > 0
             THEN title \o readMore
             ELSE TruncatedTitle(title, maxTweetLength - Len(readMore) - 3) \o readMore)
  IN Compose(a.title, Snippet(Source(a)), ReadMore(postUrl))

----------------------------------------------------------------------------
(* validateAndTestImage                                                    *)
(*                                                                         *)
(* A Buffer is the bytes the code reads of it: its first 12 bytes at most  *)
(* (buffer.slice(0, 12)) and its length.                                   *)

FiveMiB == 5242880
MinProbeLength == 1000

NoBuffer == [magic |-> <<>>, length |-> 0]

\* magicBytes[i], 0-based; -1 stands for undefined (past the end of the buffer)
ByteAt(buffer, i) == IF i < Len(buffer.magic) THEN buffer.magic[i + 1] ELSE -1

\* the magic-byte test of step 7
isValidImage(buffer) ==
  \/ ByteAt(buffer, 0) = 255 /\ ByteAt(buffer, 1) = 216 /\ ByteAt(buffer, 2) = 255
  \/ ByteAt(buffer, 0) = 137 /\ ByteAt(buffer, 1) = 80 /\ ByteAt(buffer, 2) = 78
       /\ ByteAt(buffer, 3) = 71
  \/ ByteAt(buffer, 0) = 71 /\ ByteAt(buffer, 1) = 73 /\ ByteAt(buffer, 2) = 70
  \/ ByteAt(buffer, 8) = 87 /\ ByteAt(buffer, 9) = 69 /\ ByteAt(buffer, 10) = 66
       /\ ByteAt(buffer, 11) = 80

Letters == {Lower[k] : k \in 1..26} \cup {Upper[k] : k \in 1..26}
Digits == {"0", "1", "2", "3", "4", "5", "6", "7", "8", "9"}
SpecialSchemes == {<<"h", "t", "t", "p">>, <<"h", "t", "t", "p", "s">>, <<"f", "t", "p">>, <<"w", "s">>, <<"w", "s", "s">>, <<"f", "i", "l", "e">>}

\* new URL(url) does not throw: the text has a scheme, and a special scheme has a host
IsParsableUrl(url) ==
  LET colons == {i \in 1..Len(url) : url[i] = ":"}
  IN /\ colons # {}
     /\ LET c == CHOOSE a \in colons : \A b \in colons : a <= b
            scheme == ToLowerCase(SubSeq(url, 1, c - 1))
            rest == SubSeq(url, c + 1, Len(url))
            hostAt == {i \in 1..Len(rest) : rest[i] \notin {"/", "\\"}}
            h == CHOOSE a \in hostAt : \A b \in hostAt : a <= b
            stops == {i \in h..Len(rest) : rest[i] \in {"/", "\\", "?", "#"}}
            e == IF stops = {} THEN Len(rest)
                 ELSE (CHOOSE a \in stops : \A b \in stops : a <= b) - 1
        IN /\ c > 1
           /\ scheme[1] \in Letters
           /\ \A i \in 1..Len(scheme) : scheme[i] \in Letters \cup Digits \cup {"+", "-", "."}
           /\ scheme \in SpecialSchemes \ {<<"f", "i", "l", "e">>} =>
                /\ hostAt # {}
                /\ \A i \in h..e : rest[i] \notin Whitespace \cup {"<", ">", "[", "]", "^", "|"}

\* one of the problematicPatterns matches
IsProblematicUrl(url) ==
  LET u == ToLowerCase(url)
  IN \/ Includes(u, <<"e", "x", "a", "m", "p", "l", "e", ".", "c", "o", "m">>)
     \/ Includes(u, <<"p", "l", "a", "c", "e", "h", "o", "l", "d", "e", "r">>)
     \/ Includes(u, <<"d", "u", "m", "m", "y">>)
     \/ Includes(u, <<"t", "e", "s", "t", ".", "j", "p", "g">>)
     \/ EndsWith(u, <<".", "s", "v", "g">>)

\* axios can issue a request for the URL at all
IsHttpUrl(url) ==
  StartsWith(ToLowerCase(url), <<"h", "t", "t", "p", ":", "/", "/">>) \/ StartsWith(ToLowerCase(url), <<"h", "t", "t", "p", "s", ":", "/", "/">>)

DigitChars == <<"0", "1", "2", "3", "4", "5", "6", "7", "8", "9">>
DigitValue(c) == (CHOOSE k \in 1..10 : DigitChars[k] = c) - 1

\* parseInt(text) || 0 for a header value: the leading digits, 0 when there are none
RECURSIVE DigitsValue(_)
DigitsValue(text) ==
  IF Len(text) = 0 THEN 0
  ELSE 10 * DigitsValue(SubSeq(text, 1, Len(text) - 1)) + DigitValue(text[Len(text)])
ParseIntOr0(text) ==
  LET t == Trim(text)
      non == {i \in 1..Len(t) : t[i] \notin Digits}
      n == IF non = {} THEN Len(t) ELSE (CHOOSE a \in non : \A b \in non : a <= b) - 1
  IN DigitsValue(SubSeq(t, 1, n))

Invalid(reason, probes, transfers, got) ==
  [valid |-> FALSE, thrown |-> FALSE, reason |-> reason, buffer |-> NoBuffer, size |-> 0,
   contentType |-> <<>>, probes |-> probes, transfers |-> transfers, downloaded |-> got]

\* a variant whose catch block lets the error escape
ValidateCatch_Rethrow(message, probes, transfers) ==
  [Invalid(message, probes, transfers, FALSE) EXCEPT !.thrown = TRUE]

\* the outer catch block: the error's message becomes the reason of an invalid result
ValidateCatch(message, probes, transfers) == Invalid(message, probes, transfers, FALSE)

\* a variant in which a failed probe ends the validation
HeadCatch_Fatal(head) == <<"H", "E", "A", "D", " ", "r", "e", "q", "u", "e", "s", "t", " ", "f", "a", "i", "l", "e", "d">>

\* the catch block of the probe: the failure is logged and nothing is decided (no verdict)
HeadCatch(head) == <<>>

\* what axios.get resolves or rejects with: the origin's answer under maxContentLength
GetResult(url, get) ==
  IF ~IsHttpUrl(url) THEN [error |-> <<"U", "n", "s", "u", "p", "p", "o", "r", "t", "e", "d", " ", "p", "r", "o", "t", "o", "c", "o", "l">>, body |-> NoBuffer,
                           contentType |-> <<>>]
  ELSE IF Len(get.error) > 0 THEN [error |-> get.error, body |-> NoBuffer, contentType |-> <<>>]
  ELSE IF get.body.length > FiveMiB
  THEN [error |-> <<"m", "a", "x", "C", "o", "n", "t", "e", "n", "t", "L", "e", "n", "g", "t", "h", " ", "s", "i", "z", "e", " ", "o", "f", " ", "5", "2", "4", "2", "8", "8", "0", " ", "e", "x", "c", "e", "e", "d", "e", "d">>, body |-> NoBuffer,
        contentType |-> <<>>]
  ELSE get

\* a variant that also requires the transfer's declared type to be an image type
CheckDownloaded_TrustsDeclaredType(buffer, declaredType, probes) ==
  IF buffer.length = 0
  THEN Invalid(<<"D", "o", "w", "n", "l", "o", "a", "d", "e", "d", " ", "i", "m", "a", "g", "e", " ", "i", "s", " ", "e", "m", "p", "t", "y">>, probes, 1, TRUE)
  ELSE IF ~isValidImage(buffer) \/ ~StartsWith(declaredType, <<"i", "m", "a", "g", "e", "/">>)
  THEN Invalid(<<"N", "o", "t", " ", "a", " ", "v", "a", "l", "i", "d", " ", "i", "m", "a", "g", "e", " ", "f", "i", "l", "e">>, probes, 1, TRUE)
  ELSE [valid |-> TRUE, thrown |-> FALSE, reason |-> <<>>, buffer |-> buffer,
        size |-> buffer.length,
        contentType |-> declaredType, probes |-> probes, transfers |-> 1,
        downloaded |-> TRUE]

\* steps 6 and 7 once the transfer has resolved: emptiness and magic bytes
CheckDownloaded(buffer, declaredType, probes) ==
  IF buffer.length = 0
  THEN Invalid(<<"D", "o", "w", "n", "l", "o", "a", "d", "e", "d", " ", "i", "m", "a", "g", "e", " ", "i", "s", " ", "e", "m", "p", "t", "y">>, probes, 1, TRUE)
  ELSE IF ~isValidImage(buffer)
  THEN Invalid(<<"N", "o", "t", " ", "a", " ", "v", "a", "l", "i", "d", " ", "i", "m", "a", "g", "e", " ", "f", "i", "l", "e">>, probes, 1, TRUE)
  ELSE [valid |-> TRUE, thrown |-> FALSE, reason |-> <<>>, buffer |-> buffer,
        size |-> buffer.length,
        contentType |-> declaredType, probes |-> probes, transfers |-> 1,
        downloaded |-> TRUE]

\* steps 4 and 5: what the probe's headers decide before any transfer (empty lets it go on)
ProbeVerdict(contentType, contentLength) ==
  IF Len(contentType) > 0 /\ ~StartsWith(contentType, <<"i", "m", "a", "g", "e", "/">>)
  THEN <<"I", "n", "v", "a", "l", "i", "d", " ", "c", "o", "n", "t", "e", "n", "t", " ", "t", "y", "p", "e", ":", " ">> \o contentType
  ELSE IF contentLength > 0 /\ contentLength < MinProbeLength
  THEN <<"I", "m", "a", "g", "e", " ", "t", "o", "o", " ", "s", "m", "a", "l", "l", " ", "(", "l", "i", "k", "e", "l", "y", " ", "b", "r", "o", "k", "e", "n", ")">>
  ELSE IF contentLength > 0 /\ contentLength > FiveMiB
  THEN <<"I", "m", "a", "g", "e", " ", "t", "o", "o", " ", "l", "a", "r", "g", "e">>   \* followed by the size in MB
  ELSE <<>>

\* a variant that checks the URL only after the HEAD request
RejectUrl_AfterProbe(reason) == Invalid(reason, 1, 0, FALSE)

\* steps 1 and 2 return before any request is issued
RejectUrl(reason) == Invalid(reason, 0, 0, FALSE)

\* validateAndTestImage(url) against an origin that answers the probe with head
\* and the transfer with get
validateAndTestImage(url, head, get) ==
  IF ~IsParsableUrl(url) THEN RejectUrl(<<"I", "n", "v", "a", "l", "i", "d", " ", "U", "R", "L", " ", "f", "o", "r", "m", "a", "t">>)
  ELSE IF IsProblematicUrl(url) THEN RejectUrl(<<"P", "r", "o", "b", "l", "e", "m", "a", "t", "i", "c", " ", "U", "R", "L", " ", "p", "a", "t", "t", "e", "r", "n">>)
  ELSE
    LET Decide(verdict, got) ==
          IF Len(verdict) > 0 THEN Invalid(verdict, 1, 0, FALSE)
          ELSE IF Len(got.error) > 0 THEN ValidateCatch(got.error, 1, 1)
          ELSE CheckDownloaded(got.body, got.contentType, 1)
        Probe(headOk) ==
          Decide(IF headOk
                 THEN ProbeVerdict(head.contentType, ParseIntOr0(head.contentLength))
                 ELSE HeadCatch(head),
                 GetResult(url, get))
    IN Probe(IsHttpUrl(url) /\ head.ok)

----------------------------------------------------------------------------
(* The validator on its own: a URL and an origin, then one call            *)

Jpeg(n) == [magic |-> SubSeq(<<255, 216, 255, 224, 0, 16, 74, 70, 73, 70, 0, 1>>, 1, Min(12, n)),
            length |-> n]
Png(n)  == [magic |-> SubSeq(<<137, 80, 78, 71, 13, 10, 26, 10, 0, 0, 0, 13>>, 1, Min(12, n)),
            length |-> n]
Gif(n)  == [magic |-> SubSeq(<<71, 73, 70, 56, 57, 97, 1, 0, 1, 0, 128, 0>>, 1, Min(12, n)),
            length |-> n]
WebP(n) == [magic |-> SubSeq(<<82, 73, 70, 70, 36, 0, 0, 0, 87, 69, 66, 80>>, 1, Min(12, n)),
            length |-> n]
Html(n) == [magic |-> SubSeq(<<60, 33, 68, 79, 67, 84, 89, 80, 69, 32, 104, 116>>, 1, Min(12, n)),
            length |-> n]

ValidateBuffers ==
  { NoBuffer, Jpeg(3), Jpeg(500), Jpeg(1000), Jpeg(1001), Jpeg(MaxImageLen), Jpeg(FiveMiB),
    Jpeg(FiveMiB + 1), Png(MaxImageLen), Png(43), Gif(MaxImageLen), WebP(MaxImageLen),
    WebP(11), Html(2000), Html(300) }

ValidateUrls ==
  { <<"h", "t", "t", "p", "s", ":", "/", "/", "c", "d", "n", ".", "s", "i", "t", "e", ".", "n", "g", "/", "a", ".", "j", "p", "g">>, <<"h", "t", "t", "p", ":", "/", "/", "i", "m", "g", ".", "i", "o", "/", "p">>, <<"H", "T", "T", "P", "S", ":", "/", "/", "c", "d", "n", ".", "s", "i", "t", "e", ".", "n", "g", "/", "b", ".", "p", "n", "g">>,
    <<"h", "t", "t", "p", "s", ":", "/", "/", "e", "x", "a", "m", "p", "l", "e", ".", "c", "o", "m", "/", "a", ".", "j", "p", "g">>, <<"h", "t", "t", "p", "s", ":", "/", "/", "c", "d", "n", ".", "s", "i", "t", "e", ".", "n", "g", "/", "p", "l", "a", "c", "e", "h", "o", "l", "d", "e", "r", ".", "p", "n", "g">>,
    <<"h", "t", "t", "p", "s", ":", "/", "/", "c", "d", "n", ".", "s", "i", "t", "e", ".", "n", "g", "/", "l", "o", "g", "o", ".", "S", "V", "G">>, <<"h", "t", "t", "p", "s", ":", "/", "/", "c", "d", "n", ".", "s", "i", "t", "e", ".", "n", "g", "/", "t", "e", "s", "t", ".", "j", "p", "g", "?", "w", "=", "1">>,
    <<"h", "t", "t", "p", "s", ":", "/", "/", "c", "d", "n", ".", "s", "i", "t", "e", ".", "n", "g", "/", "D", "u", "m", "m", "y", "-", "i", "m", "a", "g", "e", ".", "p", "n", "g">>,
    <<"h", "t", "t", "p">>, <<"h", "t", "t", "p", "s", ":", "/", "/">>, <<"n", "o", "t", " ", "a", " ", "u", "r", "l">>, <<"/", "i", "m", "a", "g", "e", "s", "/", "a", ".", "j", "p", "g">>, <<"f", "t", "p", ":", "/", "/", "f", "i", "l", "e", "s", ".", "i", "o", "/", "a", ".", "g", "i", "f">>, <<>> }

HeadResponses ==
  { [ok |-> FALSE, contentType |-> <<>>, contentLength |-> <<>>] }
    \cup [ok : {TRUE},
          contentType : {<<>>, <<"i", "m", "a", "g", "e", "/", "j", "p", "e", "g">>, <<"i", "m", "a", "g", "e", "/", "p", "n", "g">>, <<"t", "e", "x", "t", "/", "h", "t", "m", "l">>, <<"a", "p", "p", "l", "i", "c", "a", "t", "i", "o", "n", "/", "o", "c", "t", "e", "t", "-", "s", "t", "r", "e", "a", "m">>},
          contentLength : {<<>>, <<"0">>, <<"5", "0", "0">>, <<"9", "9", "9">>, <<"1", "0", "0", "0">>, <<"5", "1", "2", "0", "0">>, <<"5", "2", "4", "2", "8", "8", "0">>, <<"5", "2", "4", "2", "8", "8", "1">>}]

GetResponses ==
  [error : {<<>>}, body : ValidateBuffers,
   contentType : {<<>>, <<"i", "m", "a", "g", "e", "/", "j", "p", "e", "g">>, <<"t", "e", "x", "t", "/", "h", "t", "m", "l">>, <<"a", "p", "p", "l", "i", "c", "a", "t", "i", "o", "n", "/", "o", "c", "t", "e", "t", "-", "s", "t", "r", "e", "a", "m">>}]
    \cup [error : {<<"t", "i", "m", "e", "o", "u", "t", " ", "o", "f", " ", "1", "5", "0", "0", "0", "m", "s", " ", "e", "x", "c", "e", "e", "d", "e", "d">>, <<"R", "e", "q", "u", "e", "s", "t", " ", "f", "a", "i", "l", "e", "d", " ", "w", "i", "t", "h", " ", "s", "t", "a", "t", "u", "s", " ", "c", "o", "d", "e", " ", "4", "0", "4">>,
                   <<"g", "e", "t", "a", "d", "d", "r", "i", "n", "f", "o", " ", "E", "N", "O", "T", "F", "O", "U", "N", "D">>},
          body : {NoBuffer}, contentType : {<<>>}]

\* validateAndTestImage(arg) for any argument: url.substring of a value that is no string
\* throws inside the try block (line 120)
validateAndTestImageArg(kind, url, head, get) ==
  IF kind = "undefined"
  THEN ValidateCatch(<<"C", "a", "n", "n", "o", "t", " ", "r", "e", "a", "d", " ", "p", "r", "o", "p", "e", "r", "t", "i", "e", "s", " ", "o", "f", " ", "u", "n", "d", "e", "f", "i", "n", "e", "d", " ", "(", "r", "e", "a", "d", "i", "n", "g", " ", "'", "s", "u", "b", "s", "t", "r", "i", "n", "g", "'", ")">>, 0, 0)
  ELSE IF kind # "string"
  THEN ValidateCatch(<<"u", "r", "l", ".", "s", "u", "b", "s", "t", "r", "i", "n", "g", " ", "i", "s", " ", "n", "o", "t", " ", "a", " ", "f", "u", "n", "c", "t", "i", "o", "n">>, 0, 0)
  ELSE validateAndTestImage(url, head, get)

NoResult == [done |-> FALSE, result |-> Invalid(<<>>, 0, 0, FALSE)]

ValidateInit ==
  /\ vIn \in [kind : {"string"}, url : ValidateUrls, head : HeadResponses,
               get : GetResponses]
             \cup [kind : {"undefined", "number"}, url : {<<>>}, head : HeadResponses,
                   get : GetResponses]
  /\ vOut = NoResult

\* one call of validateAndTestImage(url)
Validate ==
  /\ ~vOut.done
  /\ vOut' = [done |-> TRUE,
              result |-> validateAndTestImageArg(vIn.kind, vIn.url, vIn.head, vIn.get)]
  /\ UNCHANGED <<vIn, composeVars, selectVars, publishVars, handlerVars,
                 dualVars, fetchVars>>

----------------------------------------------------------------------------
(* pickBestArticle                                                         *)

NoValidated == [buffer |-> NoBuffer, size |-> 0, contentType |-> <<>>]

\* null, or an article before any field is set
NoArticle ==
  [nil |-> TRUE, title |-> <<>>, content |-> <<>>, description |-> <<>>, image |-> <<>>,
   urlToImage |-> <<>>, category |-> "", cached |-> FALSE, validated |-> NoValidated]

\* a || b for two strings
Or(a, b) == IF Len(a) > 0 THEN a ELSE b

\* the filter of pickBestArticle: title, content and an image URL that starts with "http"
IsCandidate(a) ==
  /\ ~a.nil
  /\ Len(Trim(a.title)) > 0
  /\ Len(Or(a.content, a.description)) > 0
  /\ Len(Or(a.urlToImage, a.image)) > 0
  /\ StartsWith(Or(a.urlToImage, a.image), <<"h", "t", "t", "p">>)

ContentLength(a) == Len(Or(a.content, a.description))

\* a variant that sorts by length and puts candidates of equal length in reverse input order
SortByContentLength_TiesReversed(c) ==
  LET n == Len(c)
      rank(i) == 1 + Cardinality({k \in 1..n :
                        \/ ContentLength(c[k]) > ContentLength(c[i])
                        \/ ContentLength(c[k]) = ContentLength(c[i]) /\ k > i})
  IN [r \in 1..n |-> c[CHOOSE i \in 1..n : rank(i) = r]]

\* a variant that leaves the candidates in input order
SortByContentLength_Unsorted(c) == c

\* candidates.sort((a, b) => bLength - aLength): descending, equal lengths in input order
SortByContentLength(c) ==
  LET n == Len(c)
      rank(i) == 1 + Cardinality({k \in 1..n :
                        \/ ContentLength(c[k]) > ContentLength(c[i])
                        \/ ContentLength(c[k]) = ContentLength(c[i]) /\ k < i})
  IN [r \in 1..n |-> c[CHOOSE i \in 1..n : rank(i) = r]]

LookAhead == 5

\* a variant that tests every candidate
Window_Unbounded(candidates) == Len(candidates)

\* the number of candidates the loop may test: Math.min(5, sorted.length)
Window(candidates) == Min(LookAhead, Len(candidates))

DeadOrigin ==
  [head |-> [ok |-> FALSE, contentType |-> <<>>, contentLength |-> <<>>],
   get |-> [error |-> <<"g", "e", "t", "a", "d", "d", "r", "i", "n", "f", "o", " ", "E", "N", "O", "T", "F", "O", "U", "N", "D">>, body |-> NoBuffer, contentType |-> <<>>]]

OriginOf(w, url) == IF url \in DOMAIN w THEN w[url] ELSE DeadOrigin

\* the URL the loop validates: article.image || article.urlToImage
ImageUrlToValidate(a) == Or(a.image, a.urlToImage)

\* a variant that caches the buffer and leaves urlToImage as it came
WithValidatedImage_UrlNotSet(a, imageUrl, validation) ==
  [a EXCEPT !.cached = TRUE,
            !.validated = [buffer |-> validation.buffer, size |-> validation.size,
                           contentType |-> validation.contentType]]

\* a variant that returns the article without the validated buffer
WithValidatedImage_NoCache(a, imageUrl, validation) == [a EXCEPT !.urlToImage = imageUrl]

\* the article as returned: the validated buffer cached on it, urlToImage set
WithValidatedImage(a, imageUrl, validation) ==
  [a EXCEPT !.cached = TRUE,
            !.validated = [buffer |-> validation.buffer, size |-> validation.size,
                           contentType |-> validation.contentType],
            !.urlToImage = imageUrl]

\* a variant that returns the first candidate whatever its validation says
LoopReturns_Always(validation) == TRUE

\* the loop body's decision for one validation result: return the article or go on
LoopReturns(validation) == validation.valid

\* a variant of the filter without the test for a null entry
ReadsFields_NoNullGuard(a) == TRUE

\* the filter reads the fields of an entry only after "if (!a) return false"
ReadsFields(a) == ~a.nil

\* a property of null is read: a TypeError leaves pickBestArticle, which has no try block
FilterThrows ==
  /\ ~batch.absent
  /\ \E i \in 1..Len(batch.items) : ReadsFields(batch.items[i]) /\ batch.items[i].nil

\* pickBestArticle up to the loop: the guards, the filter and the sort
SelectStart ==
  /\ spc = "start"
  /\ LET candidates == SelectSeq(batch.items, IsCandidate)
     IN IF FilterThrows
        THEN /\ spc' = "thrown"
             /\ UNCHANGED <<picked, sorted>>
        ELSE IF batch.absent \/ Len(batch.items) = 0 \/ Len(candidates) = 0
        THEN /\ spc' = "done"
             /\ picked' = NoArticle
             /\ UNCHANGED sorted
        ELSE /\ spc' = "loop"
             /\ sorted' = SortByContentLength(candidates)
             /\ UNCHANGED picked
  /\ UNCHANGED <<batch, web, idx, tried, composeVars, validateVars, publishVars, handlerVars,
                 dualVars, fetchVars>>

\* one iteration of the loop: validate the image of sorted[i]
SelectTry ==
  /\ spc = "loop"
  /\ idx < Window(sorted)
  /\ LET Body(a, imageUrl, validation) ==
           /\ tried' = Append(tried, [rank |-> idx + 1, title |-> a.title, url |-> imageUrl,
                                      valid |-> validation.valid,
                                      transfers |-> validation.transfers])
           /\ IF validation.thrown
              THEN /\ spc' = "thrown"
                   /\ UNCHANGED <<picked, idx>>
              ELSE IF LoopReturns(validation)
              THEN /\ picked' = WithValidatedImage(a, imageUrl, validation)
                   /\ spc' = "done"
                   /\ UNCHANGED idx
              ELSE /\ idx' = idx + 1
                   /\ UNCHANGED <<picked, spc>>
         Fetch(a, imageUrl, origin) ==
           Body(a, imageUrl, validateAndTestImage(imageUrl, origin.head, origin.get))
         Try(a, imageUrl) == Fetch(a, imageUrl, OriginOf(web, imageUrl))
     IN Try(sorted[idx + 1], ImageUrlToValidate(sorted[idx + 1]))
  /\ UNCHANGED <<batch, web, sorted, composeVars, validateVars, publishVars, handlerVars,
                 dualVars, fetchVars>>

\* the loop is over and no image validated: return null
SelectGiveUp ==
  /\ spc = "loop"
  /\ idx >= Window(sorted)
  /\ spc' = "done"
  /\ picked' = NoArticle
  /\ UNCHANGED <<batch, web, sorted, idx, tried, composeVars, validateVars, publishVars, handlerVars,
                 dualVars, fetchVars>>

----------------------------------------------------------------------------
(* The selector on its own: a batch and the origins of its images          *)

AliveJpeg == <<"h", "t", "t", "p", "s", ":", "/", "/", "c", "d", "n", ".", "s", "i", "t", "e", ".", "n", "g", "/", "a", ".", "j", "p", "g">>
AlivePng  == <<"h", "t", "t", "p", ":", "/", "/", "i", "m", "g", ".", "i", "o", "/", "p">>
DeadUrl   == <<"h", "t", "t", "p", "s", ":", "/", "/", "g", "o", "n", "e", ".", "i", "o", "/", "x", ".", "j", "p", "g">>
PageUrl   == <<"h", "t", "t", "p", "s", ":", "/", "/", "s", "i", "t", "e", ".", "i", "o", "/", "s", "t", "o", "r", "y">>

Serving(buffer, declaredType) ==
  [head |-> [ok |-> TRUE, contentType |-> declaredType, contentLength |-> <<>>],
   get |-> [error |-> <<>>, body |-> buffer, contentType |-> declaredType]]

\* the origins of a run: two images, one dead host, one page; in the second the PNG is gone
Worlds ==
  { (AliveJpeg :> Serving(Jpeg(MaxImageLen), <<"i", "m", "a", "g", "e", "/", "j", "p", "e", "g">>)) @@
    (AlivePng :> Serving(Png(MaxImageLen), <<>>)) @@
    (DeadUrl :> DeadOrigin) @@
    (PageUrl :> [head |-> DeadOrigin.head,
                 get |-> [error |-> <<>>, body |-> Html(2000), contentType |-> <<"t", "e", "x", "t", "/", "h", "t", "m", "l">>]]),
    (AliveJpeg :> Serving(Jpeg(MaxImageLen), <<"i", "m", "a", "g", "e", "/", "j", "p", "e", "g">>)) @@
    (AlivePng :> DeadOrigin) @@
    (DeadUrl :> DeadOrigin) @@
    (PageUrl :> DeadOrigin) }

StoryTitle(pos) == <<"S", "t", "o", "r", "y", " ">> \o <<DigitChars[pos + 1]>>

Story(pos, content, description, image, urlToImage) ==
  [nil |-> FALSE, title |-> StoryTitle(pos), content |-> content,
   description |-> description, image |-> image, urlToImage |-> urlToImage,
   category |-> "sport", cached |-> FALSE, validated |-> NoValidated]

\* the articles the tail of a batch is drawn from
TailStories(pos) ==
  { Story(pos, Words(30), <<>>, DeadUrl, DeadUrl),
    Story(pos, <<>>, Words(10), <<>>, AlivePng) }

\* the articles the first two places of a batch are drawn from
HeadStories(pos) ==
  TailStories(pos) \cup
  { NoArticle,
    Story(pos, Words(30), <<>>, AliveJpeg, <<>>),
    Story(pos, Words(20), Words(45), PageUrl, <<>>),
    [Story(pos, Words(40), <<>>, AliveJpeg, <<>>) EXCEPT !.title = <<" ", " ">>],
    Story(pos, <<>>, <<>>, AliveJpeg, <<>>),
    Story(pos, Words(40), <<>>, <<"i", "m", "g", "/", "a", ".", "j", "p", "g">>, <<>>),
    Story(pos, Words(40), <<>>, <<"i", "m", "g", "/", "a", ".", "j", "p", "g">>, AliveJpeg),
    Story(pos, Words(40), <<>>, AlivePng, <<"h", "t", "t", "p", "x">>),
    Story(pos, Words(35), <<>>, AlivePng, AliveJpeg) }

\* the batches of n articles: the first two places hold any story, the rest a tail story
RECURSIVE BatchesOfLen(_)
BatchesOfLen(n) ==
  IF n = 0 THEN {<<>>}
  ELSE {Append(b, a) : b \in BatchesOfLen(n - 1),
                       a \in (IF n <= 2 THEN HeadStories(n) ELSE TailStories(n))}

Batches == UNION {BatchesOfLen(n) : n \in 0..MaxBatch}

SelectIdle ==
  /\ batch = [absent |-> TRUE, items |-> <<>>]
  /\ web = << >>
  /\ sorted = <<>>
  /\ idx = 0
  /\ tried = <<>>
  /\ picked = NoArticle
  /\ spc = "idle"

SelectInit ==
  /\ batch \in [absent : {FALSE}, items : Batches] \cup {[absent |-> TRUE, items |-> <<>>]}
  /\ web \in Worlds
  /\ sorted = <<>>
  /\ idx = 0
  /\ tried = <<>>
  /\ picked = NoArticle
  /\ spc = "start"

----------------------------------------------------------------------------
(* postToX (api/twitter_bot.js)                                            *)

\* an Error: message, and the type, code, data and errors fields of a platform error
Error(message) ==
  [message |-> message, hasMessage |-> TRUE, type |-> "", code |-> 0, data |-> "",
   errors |-> ""]
NoError == Error(<<>>)

NoOutcome ==
  [kind |-> "none", success |-> FALSE, tweetId |-> <<>>, tweetUrl |-> <<>>,
   error |-> <<>>, details |-> [code |-> 0, data |-> "", errors |-> ""]]

\* a variant whose catch block lets the error escape
PostCatch_Rethrow(error) ==
  [kind |-> "thrown", success |-> FALSE, tweetId |-> <<>>, tweetUrl |-> <<>>,
   error |-> error.message,
   details |-> [code |-> error.code, data |-> error.data, errors |-> error.errors]]

\* a variant whose catch block returns the message without the platform's payload
PostCatch_NoDetails(error) ==
  [kind |-> "returned", success |-> FALSE, tweetId |-> <<>>, tweetUrl |-> <<>>,
   error |-> error.message, details |-> [code |-> 0, data |-> "", errors |-> ""]]

\* the return statement of the outer catch block
PostCatch(error) ==
  [kind |-> "returned", success |-> FALSE, tweetId |-> <<>>, tweetUrl |-> <<>>,
   error |-> error.message,
   details |-> [code |-> error.code, data |-> error.data, errors |-> error.errors]]

\* the return statement at the end of the try block
PostSuccess(tweetId) ==
  [kind |-> "returned", success |-> TRUE, tweetId |-> tweetId,
   tweetUrl |-> <<"h", "t", "t", "p", "s", ":", "/", "/", "t", "w", "i", "t", "t", "e", "r", ".", "c", "o", "m", "/", "i", "/", "w", "e", "b", "/", "s", "t", "a", "t", "u", "s", "/">> \o tweetId, error |-> <<>>,
   details |-> [code |-> 0, data |-> "", errors |-> ""]]

\* the URL postToX resolves: article.urlToImage || article.image
ImageUrlToPost(a) == Or(a.urlToImage, a.image)

\* the checks before composition: the error thrown, or none
ArticleCheck(a) ==
  IF a.nil THEN Error(<<"N", "o", " ", "a", "r", "t", "i", "c", "l", "e", " ", "p", "r", "o", "v", "i", "d", "e", "d">>)
  ELSE IF Len(Trim(a.title)) = 0 THEN Error(<<"A", "r", "t", "i", "c", "l", "e", " ", "m", "i", "s", "s", "i", "n", "g", " ", "v", "a", "l", "i", "d", " ", "t", "i", "t", "l", "e">>)
  ELSE IF Len(ImageUrlToPost(a)) = 0 \/ ~StartsWith(ImageUrlToPost(a), <<"h", "t", "t", "p">>)
  THEN Error(<<"A", "r", "t", "i", "c", "l", "e", " ", "m", "i", "s", "s", "i", "n", "g", " ", "v", "a", "l", "i", "d", " ", "i", "m", "a", "g", "e", " ", "U", "R", "L">>)
  ELSE NoError

\* the MIME type passed to uploadMedia, from the first bytes of the buffer
MimeOf(buffer) ==
  IF ByteAt(buffer, 0) = 255 /\ ByteAt(buffer, 1) = 216 THEN "image/jpeg"
  ELSE IF ByteAt(buffer, 0) = 137 /\ ByteAt(buffer, 1) = 80 THEN "image/png"
  ELSE IF ByteAt(buffer, 0) = 71 /\ ByteAt(buffer, 1) = 73 THEN "image/gif"
  ELSE "image/jpeg"

\* the test of the upload catch block for a network error
IsNetworkError(uploadError) ==
  \/ uploadError.type = "request"
  \/ Includes(uploadError.message, <<"E", "C", "O", "N", "N", "R", "E", "S", "E", "T">>)
  \/ Includes(uploadError.message, <<"E", "T", "I", "M", "E", "D", "O", "U", "T">>)

\* what the upload catch block throws
UploadCatch(uploadError) ==
  IF uploadError.type # "request" /\ ~uploadError.hasMessage
  THEN Error(<<"C", "a", "n", "n", "o", "t", " ", "r", "e", "a", "d", " ", "p", "r", "o", "p", "e", "r", "t", "i", "e", "s", " ", "o", "f", " ", "u", "n", "d", "e", "f", "i", "n", "e", "d", " ", "(", "r", "e", "a", "d", "i", "n", "g", " ", "'", "i", "n", "c", "l", "u", "d", "e", "s", "'", ")">>)
  ELSE IF IsNetworkError(uploadError)
  THEN Error(<<"N", "e", "t", "w", "o", "r", "k", " ", "e", "r", "r", "o", "r", " ", "d", "u", "r", "i", "n", "g", " ", "i", "m", "a", "g", "e", " ", "u", "p", "l", "o", "a", "d", ".", " ", "P", "l", "e", "a", "s", "e", " ", "t", "r", "y", " ", "a", "g", "a", "i", "n", ".">>)
  ELSE uploadError

\* a variant that logs a failed upload and posts without media
AfterUpload_Swallow(result) ==
  IF result.ok THEN [to |-> "tweet", mediaId |-> result.mediaId, error |-> NoError]
  ELSE [to |-> "tweet", mediaId |-> <<>>, error |-> NoError]

\* where postToX goes after an uploadMedia call
AfterUpload(result) ==
  IF result.ok THEN [to |-> "tweet", mediaId |-> result.mediaId, error |-> NoError]
  ELSE [to |-> "catch", mediaId |-> <<>>, error |-> UploadCatch(result.error)]

\* a variant that posts again when the tweet call fails
AfterTweet_Retry(result) ==
  IF result.ok THEN [to |-> "return", error |-> NoError]
  ELSE [to |-> "tweet", error |-> NoError]

\* where postToX goes after the v2.tweet call
AfterTweet(result) ==
  IF result.ok THEN [to |-> "return", error |-> NoError]
  ELSE [to |-> "catch", error |-> result.error]

UploadCalls == SelectSeq(calls, LAMBDA c : c.op = "uploadMedia")
TweetCalls == SelectSeq(calls, LAMBDA c : c.op = "tweet")

Call(op, ok, media, text, mimeType) ==
  [op |-> op, ok |-> ok, mediaId |-> media, text |-> text, mimeType |-> mimeType]

Throw(error) ==
  /\ outcome' = PostCatch(error)
  /\ ppc' = "done"

\* a variant that transmits the text whatever its length
LengthCheck_Skipped(text) == NoError

\* the length of the composed text is measured again: the error thrown, or none
LengthCheck(text) ==
  IF Len(text) > maxTweetLength THEN Error(<<"T", "w", "e", "e", "t", " ", "t", "o", "o", " ", "l", "o", "n", "g">>) ELSE NoError

\* the article checks, createTweetText and the length check
PostStart ==
  /\ ppc = "start"
  /\ LET Body(error, text) ==
           IF Len(error.message) > 0
           THEN Throw(error) /\ UNCHANGED tweetText
           ELSE /\ tweetText' = text
                /\ IF Len(LengthCheck(text).message) > 0
                   THEN Throw(LengthCheck(text))
                   ELSE ppc' = "getImage" /\ UNCHANGED outcome
     IN Body(ArticleCheck(article), createTweetTextTags(article))
  /\ UNCHANGED <<article, platform, imageBuffer, mediaId, calls,
                 composeVars, validateVars, selectVars, handlerVars,
                 dualVars, fetchVars>>

\* downloadImageBuffer(imageUrl, article._validatedImage) and the checks of the buffer
PostGetImage ==
  /\ ppc = "getImage"
  /\ LET fetched == ~article.cached
         Checks(validation, buffer) ==
           /\ calls' = IF fetched
                       THEN calls \o [i \in 1..validation.probes |->
                                        Call("head", TRUE, <<>>, <<>>, "")]
                                  \o [i \in 1..validation.transfers |->
                                        Call("get", validation.downloaded, <<>>, <<>>, "")]
                       ELSE calls
           /\ IF fetched /\ ~validation.valid
              THEN Throw(Error(<<"I", "m", "a", "g", "e", " ", "v", "a", "l", "i", "d", "a", "t", "i", "o", "n", " ", "f", "a", "i", "l", "e", "d", ":", " ">> \o validation.reason))
                     /\ UNCHANGED imageBuffer
              ELSE IF buffer.length = 0
              THEN Throw(Error(<<"I", "m", "a", "g", "e", " ", "b", "u", "f", "f", "e", "r", " ", "i", "s", " ", "e", "m", "p", "t", "y", " ", "o", "r", " ", "i", "n", "v", "a", "l", "i", "d">>)) /\ UNCHANGED imageBuffer
              ELSE IF buffer.length > FiveMiB
              THEN Throw(Error(<<"I", "m", "a", "g", "e", " ", "t", "o", "o", " ", "l", "a", "r", "g", "e", " ", "f", "o", "r", " ", "T", "w", "i", "t", "t", "e", "r">>)) /\ UNCHANGED imageBuffer
              ELSE /\ imageBuffer' = buffer
                   /\ ppc' = "upload"
                   /\ UNCHANGED outcome
         Download(validation) ==
           Checks(validation,
                  IF article.cached THEN article.validated.buffer ELSE validation.buffer)
     IN Download(validateAndTestImage(ImageUrlToPost(article), platform.origin.head,
                                      platform.origin.get))
  /\ UNCHANGED <<article, platform, tweetText, mediaId,
                 composeVars, validateVars, selectVars, handlerVars,
                 dualVars, fetchVars>>

\* twitterClient.v1.uploadMedia(imageBuffer, ...) and its catch block
PostUpload ==
  /\ ppc = "upload"
  /\ Len(UploadCalls) < Len(platform.uploads)
  /\ LET Body(result, next) ==
           /\ calls' = Append(calls, Call("uploadMedia", result.ok, result.mediaId, <<>>,
                                          MimeOf(imageBuffer)))
           /\ mediaId' = next.mediaId
           /\ IF next.to = "catch"
              THEN Throw(next.error)
              ELSE ppc' = next.to /\ UNCHANGED outcome
         Upload(result) == Body(result, AfterUpload(result))
     IN Upload(platform.uploads[Len(UploadCalls) + 1])
  /\ UNCHANGED <<article, platform, tweetText, imageBuffer,
                 composeVars, validateVars, selectVars, handlerVars,
                 dualVars, fetchVars>>

\* the pause, twitterClient.v2.tweet({text, media}) and its catch block
PostTweet ==
  /\ ppc = "tweet"
  /\ Len(TweetCalls) < MaxTweetCalls
  /\ LET Body(result, next) ==
           /\ calls' = Append(calls, Call("tweet", result.ok, mediaId, tweetText, ""))
           /\ IF next.to = "catch" THEN Throw(next.error)
              ELSE IF next.to = "return"
              THEN outcome' = PostSuccess(result.tweetId) /\ ppc' = "done"
              ELSE ppc' = next.to /\ UNCHANGED outcome
     IN Body(platform.tweet, AfterTweet(platform.tweet))
  /\ UNCHANGED <<article, platform, tweetText, imageBuffer, mediaId,
                 composeVars, validateVars, selectVars, handlerVars,
                 dualVars, fetchVars>>

----------------------------------------------------------------------------
(* The publisher on its own: an article, its image origin and the          *)
(* platform's answers to the successive uploads and to the tweet           *)

PlatformError(message, type, code, data) ==
  [message |-> message, hasMessage |-> TRUE, type |-> type, code |-> code,
   data |-> data, errors |-> data]

UploadOk == [ok |-> TRUE, class |-> "ok", mediaId |-> <<"1", "8", "4", "9">>, error |-> NoError]
UploadFails(class, error) == [ok |-> FALSE, class |-> class, mediaId |-> <<>>, error |-> error]

UploadAnswers ==
  { UploadOk,
    UploadFails("transient", PlatformError(<<"R", "e", "q", "u", "e", "s", "t", " ", "f", "a", "i", "l", "e", "d">>, "request", 0, "")),
    UploadFails("transient", PlatformError(<<"c", "o", "n", "n", "e", "c", "t", " ", "E", "T", "I", "M", "E", "D", "O", "U", "T", " ", "1", "0", "4", ".", "2", "4", "4", ".", "4", "2", ".", "2", ":", "4", "4", "3">>, "", 0, "")),
    UploadFails("permanent",
                PlatformError(<<"R", "e", "q", "u", "e", "s", "t", " ", "f", "a", "i", "l", "e", "d", " ", "w", "i", "t", "h", " ", "c", "o", "d", "e", " ", "4", "0", "1">>, "response", 401, "Unauthorized")) }

TweetOk == [ok |-> TRUE, tweetId |-> <<"1", "8", "5", "0">>, error |-> NoError]
TweetAnswers ==
  { TweetOk,
    [ok |-> FALSE, tweetId |-> <<>>,
     error |-> PlatformError(<<"R", "e", "q", "u", "e", "s", "t", " ", "f", "a", "i", "l", "e", "d", " ", "w", "i", "t", "h", " ", "c", "o", "d", "e", " ", "4", "2", "9">>, "response", 429,
                             "Too Many Requests")],
    [ok |-> FALSE, tweetId |-> <<>>,
     error |-> PlatformError(<<"r", "e", "a", "d", " ", "E", "C", "O", "N", "N", "R", "E", "S", "E", "T">>, "request", 0, "")] }

RECURSIVE Scripts(_)
Scripts(n) ==
  IF n = 0 THEN {<<>>} ELSE {Append(u, a) : u \in Scripts(n - 1), a \in UploadAnswers}

Cached(a, buffer, declaredType) ==
  [a EXCEPT !.cached = TRUE,
            !.validated = [buffer |-> buffer, size |-> buffer.length,
                           contentType |-> declaredType]]

\* the articles postToX is called with, each with the origin of its image
PublishInputs ==
  { [article |-> NoArticle, origin |-> DeadOrigin],
    [article |-> [Story(1, Words(30), <<>>, AliveJpeg, <<>>) EXCEPT !.title = <<" ">>],
     origin |-> Serving(Jpeg(MaxImageLen), <<"i", "m", "a", "g", "e", "/", "j", "p", "e", "g">>)],
    [article |-> Story(1, Words(30), <<>>, <<>>, <<>>), origin |-> DeadOrigin],
    [article |-> Story(1, Words(30), <<>>, <<"i", "m", "g", "/", "a", ".", "j", "p", "g">>, <<>>), origin |-> DeadOrigin],
    [article |-> Story(1, Words(30), <<>>, AliveJpeg, <<>>),
     origin |-> Serving(Jpeg(MaxImageLen), <<"i", "m", "a", "g", "e", "/", "j", "p", "e", "g">>)],
    [article |-> Story(1, <<"A", "r", "s", "e", "n", "a", "l", " ", "s", "i", "g", "n", " ", "s", "t", "r", "i", "k", "e", "r", ".", " ", "D", "e", "a", "l", " ", "d", "o", "n", "e", "!">>, <<>>, <<>>, AlivePng),
     origin |-> Serving(Png(MaxImageLen), <<"t", "e", "x", "t", "/", "h", "t", "m", "l">>)],
    [article |-> Story(1, Words(30), <<>>, DeadUrl, <<>>), origin |-> DeadOrigin],
    [article |-> Story(1, Words(30), <<>>, PageUrl, <<>>),
     origin |-> Serving(Html(2000), <<>>)],
    [article |-> Cached(Story(1, Words(30), <<>>, AliveJpeg, AliveJpeg),
                        Jpeg(MaxImageLen), <<"i", "m", "a", "g", "e", "/", "j", "p", "e", "g">>),
     origin |-> Serving(Jpeg(MaxImageLen), <<"i", "m", "a", "g", "e", "/", "j", "p", "e", "g">>)],
    [article |-> Cached(Story(1, <<>>, Words(10), <<>>, AlivePng), WebP(MaxImageLen), <<>>),
     origin |-> DeadOrigin],
    [article |-> Cached([Story(1, Words(MaxBodyLen), <<>>, AliveJpeg, AliveJpeg)
                           EXCEPT !.title = Words(MaxTitleLen)],
                        Gif(MaxImageLen), <<"i", "m", "a", "g", "e", "/", "g", "i", "f">>),
     origin |-> DeadOrigin] }

\* what the URL shortener answers, and the date createPostUrl reads
ShortenerDown == [ok |-> FALSE, tinyUrl |-> <<>>]
ShortenerUp == [ok |-> TRUE, tinyUrl |-> <<"h", "t", "t", "p", "s", ":", "/", "/", "t", "i", "n", "y", "u", "r", "l", ".", "c", "o", "m", "/", "2", "s", "4", "x", "9", "b", "7", "c">>]
Today == <<"2", "0", "2", "5", "/", "0", "1", "/", "1", "5">>

PublishIdle ==
  /\ article = NoArticle
  /\ platform = [origin |-> DeadOrigin, uploads |-> <<>>, tweet |-> TweetOk,
                  shortener |-> ShortenerDown, today |-> Today]
  /\ ppc = "idle"
  /\ tweetText = <<>>
  /\ imageBuffer = NoBuffer
  /\ mediaId = <<>>
  /\ calls = <<>>
  /\ outcome = NoOutcome

PublishInit ==
  /\ \E in \in PublishInputs :
       /\ article = in.article
       /\ platform \in [origin : {in.origin}, uploads : Scripts(MaxUploadScript),
                        tweet : TweetAnswers, shortener : {ShortenerDown},
                        today : {Today}]
  /\ ppc = "start"
  /\ tweetText = <<>>
  /\ imageBuffer = NoBuffer
  /\ mediaId = <<>>
  /\ calls = <<>>
  /\ outcome = NoOutcome

----------------------------------------------------------------------------
(* postToX (api/test.js): the variant that links to the post               *)

SlugChars == {Lower[k] : k \in 1..26} \cup Digits \cup {" ", "-"}
IsSlugChar(c) == c \in SlugChars

\* generateSlug(text): lower case, trimmed, only a-z, 0-9, space and "-" kept, each
\* run of spaces and dashes turned into one "-", no "-" at either end
generateSlug(text) ==
  LET Strip(t) ==
        LET keep == {i \in 1..Len(t) : t[i] # "-"}
        IN IF keep = {} THEN <<>>
           ELSE SubSeq(t, CHOOSE i \in keep : \A j \in keep : i <= j,
                          CHOOSE i \in keep : \A j \in keep : i >= j)
      Collapse(t) ==
        CatRange([i \in 1..Len(t) |->
                    IF i > 1 /\ t[i] = "-" /\ t[i - 1] = "-" THEN <<>> ELSE <<t[i]>>],
                 1, Len(t))
      Dashes(t) == [i \in 1..Len(t) |-> IF t[i] = " " THEN "-" ELSE t[i]]
  IN Strip(Collapse(Dashes(SelectSeq(Trim(ToLowerCase(text)), IsSlugChar))))

\* createPostUrl(post), with the date it reads as year/month/day
createPostUrl(post, date) ==
  <<"h", "t", "t", "p", "s", ":", "/", "/", "w", "w", "w", ".", "t", "r", "e", "n", "d", "z", "l", "i", "b", ".", "c", "o", "m", ".", "n", "g", "/">> \o date \o <<"/">> \o generateSlug(post.title)

\* shortenUrl(longUrl): the short URL, or the long one when the shortener fails
shortenUrl(longUrl, answer) == IF answer.ok THEN answer.tinyUrl ELSE longUrl

\* where postToX of api/test.js goes after uploadMedia: its catch rethrows the error
LinkAfterUpload(result) ==
  IF result.ok THEN [to |-> "linkTweet", mediaId |-> result.mediaId, error |-> NoError]
  ELSE [to |-> "catch", mediaId |-> <<>>, error |-> result.error]

\* the article checks, the link, createTweetText and the length check
LinkStart ==
  /\ ppc = "linkStart"
  /\ LET Body(error, text) ==
           IF Len(error.message) > 0
           THEN Throw(error) /\ UNCHANGED tweetText
           ELSE /\ tweetText' = text
                /\ IF Len(LengthCheck(text).message) > 0
                   THEN Throw(LengthCheck(text))
                   ELSE ppc' = "linkGetImage" /\ UNCHANGED outcome
     IN Body(ArticleCheck(article),
             createTweetTextLink(article,
                                 shortenUrl(createPostUrl(article, platform.today),
                                            platform.shortener)))
  /\ UNCHANGED <<article, platform, imageBuffer, mediaId, calls,
                 composeVars, validateVars, selectVars, handlerVars,
                 dualVars, fetchVars>>

\* downloadImageBuffer(imageUrl, article._validatedImage)
LinkGetImage ==
  /\ ppc = "linkGetImage"
  /\ LET fetched == ~article.cached
         Download(validation) ==
           /\ calls' = IF fetched
                       THEN calls \o [i \in 1..validation.probes |->
                                        Call("head", TRUE, <<>>, <<>>, "")]
                                  \o [i \in 1..validation.transfers |->
                                        Call("get", validation.downloaded, <<>>, <<>>, "")]
                       ELSE calls
           /\ IF fetched /\ ~validation.valid
              THEN Throw(Error(<<"I", "m", "a", "g", "e", " ", "v", "a", "l", "i", "d", "a", "t", "i", "o", "n", " ", "f", "a", "i", "l", "e", "d", ":", " ">> \o validation.reason))
                     /\ UNCHANGED imageBuffer
              ELSE /\ imageBuffer' = IF fetched THEN validation.buffer
                                     ELSE article.validated.buffer
                   /\ ppc' = "linkUpload"
                   /\ UNCHANGED outcome
     IN Download(validateAndTestImage(ImageUrlToPost(article), platform.origin.head,
                                      platform.origin.get))
  /\ UNCHANGED <<article, platform, tweetText, mediaId,
                 composeVars, validateVars, selectVars, handlerVars,
                 dualVars, fetchVars>>

\* twitterClient.v1.uploadMedia(imageBuffer, {mimeType: "image/jpeg"}) and its catch block
LinkUpload ==
  /\ ppc = "linkUpload"
  /\ Len(UploadCalls) < Len(platform.uploads)
  /\ LET Body(result, next) ==
           /\ calls' = Append(calls, Call("uploadMedia", result.ok, result.mediaId, <<>>,
                                          "image/jpeg"))
           /\ mediaId' = next.mediaId
           /\ IF next.to = "catch"
              THEN Throw(next.error)
              ELSE ppc' = next.to /\ UNCHANGED outcome
         Upload(result) == Body(result, LinkAfterUpload(result))
     IN Upload(platform.uploads[Len(UploadCalls) + 1])
  /\ UNCHANGED <<article, platform, tweetText, imageBuffer,
                 composeVars, validateVars, selectVars, handlerVars,
                 dualVars, fetchVars>>

\* the pause, rwClient.v2.tweet({text, media}) and its catch block
LinkTweet ==
  /\ ppc = "linkTweet"
  /\ Len(TweetCalls) < MaxTweetCalls
  /\ calls' = Append(calls, Call("tweet", platform.tweet.ok, mediaId, tweetText, ""))
  /\ IF platform.tweet.ok
     THEN outcome' = PostSuccess(platform.tweet.tweetId) /\ ppc' = "done"
     ELSE Throw(platform.tweet.error)
  /\ UNCHANGED <<article, platform, tweetText, imageBuffer, mediaId,
                 composeVars, validateVars, selectVars, handlerVars,
                 dualVars, fetchVars>>

\* a call of postToX of either file
PublishInitLink ==
  /\ \E in \in PublishInputs :
       /\ article = in.article
       /\ platform \in [origin : {in.origin}, uploads : Scripts(MaxUploadScript),
                        tweet : TweetAnswers, shortener : {ShortenerDown, ShortenerUp},
                        today : {Today}]
  /\ ppc = "linkStart"
  /\ tweetText = <<>>
  /\ imageBuffer = NoBuffer
  /\ mediaId = <<>>
  /\ calls = <<>>
  /\ outcome = NoOutcome

----------------------------------------------------------------------------
(* The composer on its own: an article and a link, then one call           *)

ComposeTitles ==
  {Rep("t", n) : n \in {1, 40, 200, 226, 227, 277, 278, 281, MaxTitleLen}}
    \cup {Words(n) : n \in {40, 225, 280, MaxTitleLen}}
    \cup {<<"M", "e", "s", "s", "i", " ", "s", "c", "o", "r", "e", "s", " ", "h", "a", "t", "-", "t", "r", "i", "c", "k", " ", "i", "n", " ", "C", "h", "a", "m", "p", "i", "o", "n", "s", " ", "L", "e", "a", "g", "u", "e", " ", "f", "i", "n", "a", "l">>,
          <<"B", "R", "E", "A", "K", "I", "N", "G", ":", " ", "A", "r", "s", "e", "n", "a", "l", " ", "c", "o", "m", "p", "l", "e", "t", "e", " ", "s", "h", "o", "c", "k", "i", "n", "g", " ", "t", "r", "a", "n", "s", "f", "e", "r", " ", "d", "e", "a", "l">>}

ComposeBodies ==
  { <<>>,
    <<"S", "h", "o", "r", "t", " ", "o", "n", "e", ".">>,
    Rep("b", 150) \o <<".", " ">> \o Rep("c", 150) \o <<"!", " ", "M", "o", "r", "e", " ", "t", "e", "x", "t", " ", "h", "e", "r", "e", ".", " ", "A", "n", "d", " ", "m", "o", "r", "e", ".">>,
    <<"S", "e", "e", " ", "h", "t", "t", "p", "s", ":", "/", "/", "t", ".", "c", "o", "/", "x", " ", "[", "1", "]", " ", "f", "o", "r", " ", "t", "h", "e", " ", "g", "o", "a", "l", ".", " ", "N", "e", "x", "t", " ", "[", "r", "e", "f", "]", " ", "o", "n", "e", "?", " ", "T", "h", "i", "r", "d", ".">>,
    <<".", ".", ".", " ", "!", "!", "!", " ", "?", "?", "?">>,
    Words(MaxBodyLen),
    [i \in 1..(2 * MaxDots - 1) |-> IF i % 2 = 1 THEN "." ELSE " "] }

ComposeLinks ==
  {<<"h", "t", "t", "p", "s", ":", "/", "/">> \o Rep("x", n - 8) : n \in {23, 100, 263, 264, 265, MaxLinkLen}}

NoText == [variant |-> "none", text |-> <<>>, calls |-> 0, again |-> <<>>]

\* the process around createTweetText: the clock, and the text of the call before
FreshProcess == [clock |-> 0, last |-> <<>>]
AfterCall(env, text) == [clock |-> env.clock + 1, last |-> text]

\* a variant whose text grows with the time of the call
createTweetText_Stamped(variant, in, env) ==
  IF variant = "link" THEN createTweetTextLink(in, in.link) \o Rep("'", env.clock)
  ELSE createTweetTextTags(in) \o Rep("'", env.clock)

\* createTweetText called in a process: neither variant reads the clock, a random
\* source or anything outside its arguments
createTweetText(variant, in, env) ==
  IF variant = "link" THEN createTweetTextLink(in, in.link) ELSE createTweetTextTags(in)

ComposeInit ==
  /\ cIn \in [title : ComposeTitles, content : ComposeBodies,
              description : {<<>>, <<"F", "a", "l", "l", "b", "a", "c", "k", " ", "d", "e", "s", "c", "r", "i", "p", "t", "i", "o", "n", " ", "o", "f", " ", "t", "h", "e", " ", "s", "t", "o", "r", "y", ".">>},
              category : {"sport", "general"}, link : ComposeLinks]
  /\ cOut = NoText
  /\ cEnv = FreshProcess

FirstCall(variant) ==
  LET Returned(text) ==
        /\ cOut' = [variant |-> variant, text |-> text, calls |-> 1, again |-> <<>>]
        /\ cEnv' = AfterCall(cEnv, text)
  IN Returned(createTweetText(variant, cIn, cEnv))

\* one call of createTweetText(article, postUrl) of api/test.js
ComposeLink ==
  /\ cOut.variant = "none"
  /\ FirstCall("link")
  /\ UNCHANGED <<cIn, validateVars, selectVars, publishVars, handlerVars,
                 dualVars, fetchVars>>

\* one call of createTweetText(article) of api/twitter_bot.js
ComposeTags ==
  /\ cOut.variant = "none"
  /\ FirstCall("tags")
  /\ UNCHANGED <<cIn, validateVars, selectVars, publishVars, handlerVars,
                 dualVars, fetchVars>>

\* a second call with the same article and link, later in the same process
ComposeAgain ==
  /\ cOut.calls = 1
  /\ LET Returned(text) ==
           /\ cOut' = [cOut EXCEPT !.calls = 2, !.again = text]
           /\ cEnv' = AfterCall(cEnv, text)
     IN Returned(createTweetText(cOut.variant, cIn, cEnv))
  /\ UNCHANGED <<cIn, validateVars, selectVars, publishVars, handlerVars,
                 dualVars, fetchVars>>


\* the scenario of a long article: a title of 40 characters, a body of 4000, a
\* link of 23
Prose(text, n) == text \o [i \in 1..(n - Len(text)) |->
                             IF i % 250 = 0 THEN "." ELSE IF i % 6 = 0 THEN " " ELSE "w"]

ScenarioInit ==
  /\ cIn \in [title : {Rep("t", 40), Words(40), <<"A", "r", "s", "e", "n", "a", "l", " ", "c", "o", "m", "p", "l", "e", "t", "e", " ", "s", "h", "o", "c", "k", " ", "d", "e", "a", "l", " ", "f", "o", "r", " ", "s", "t", "r", "i", "k", "e", "r", ".">>},
              content : {Prose(<<>>, 4000), Prose(<<"G", "o", "a", "l", ".", " ", "W", "i", "n", ".", " ">>, 4000),
                         Prose(<<"S", "e", "e", " ", "h", "t", "t", "p", "s", ":", "/", "/", "t", ".", "c", "o", "/", "x", " ", "n", "o", "w", "!", " ", "D", "o", "n", "e", "?", " ">>, 4000), Words(4000)},
              description : {<<>>}, category : {"sport", "general"},
              link : {<<"h", "t", "t", "p", "s", ":", "/", "/">> \o Rep("x", 15)}]
  /\ cOut = NoText
  /\ cEnv = FreshProcess

ComposeIdle ==
  /\ cIn = [title |-> <<>>, content |-> <<>>, description |-> <<>>, category |-> "",
            link |-> <<>>]
  /\ cOut = NoText
  /\ cEnv = FreshProcess

ValidateIdle ==
  /\ vIn = [kind |-> "string", url |-> <<>>, head |-> DeadOrigin.head,
            get |-> DeadOrigin.get]
  /\ vOut = NoResult

----------------------------------------------------------------------------
(* handler (api/update-news.js): one run, from the scraped listings to the *)
(* documents created in the store                                          *)

MaxSports == 2
MaxRunScript == 1

\* encodeURIComponent over the characters of the image URLs explored: letters,
\* digits, "-", "_" and "." stay, the others become their percent escapes
encodeURIComponent(text) ==
  CatRange([i \in 1..Len(text) |->
              IF text[i] = ":" THEN <<"%", "3", "A">>
              ELSE IF text[i] = "/" THEN <<"%", "2", "F">>
              ELSE IF text[i] = "?" THEN <<"%", "3", "F">>
              ELSE IF text[i] = "=" THEN <<"%", "3", "D">>
              ELSE IF text[i] = "&" THEN <<"%", "2", "6">>
              ELSE <<text[i]>>],
           1, Len(text))

\* the image URL the handler stores and posts: the CDN fetch URL, or a placeholder
ImageUrlOf(image) ==
  IF Len(image) > 0
  THEN <<"h", "t", "t", "p", "s", ":", "/", "/", "r", "e", "s", ".", "c", "l", "o", "u", "d", "i", "n", "a", "r", "y", ".", "c", "o", "m", "/", "d", "w", "g", "z", "c", "c", "y", "1", "i", "/", "i", "m", "a", "g", "e", "/", "f", "e", "t", "c", "h", "/", "w", "_", "8", "0", "0", ",", "h", "_", "4", "5", "0", ",", "c", "_", "f", "i", "l", "l", ",", "q", "_", "a", "u", "t", "o", ",", "f", "_", "a", "u", "t", "o", "/">>
         \o encodeURIComponent(image)
  ELSE <<"h", "t", "t", "p", "s", ":", "/", "/", "v", "i", "a", ".", "p", "l", "a", "c", "e", "h", "o", "l", "d", "e", "r", ".", "c", "o", "m", "/", "8", "0", "0", "x", "4", "5", "0", "?", "t", "e", "x", "t", "=", "N", "o", "+", "I", "m", "a", "g", "e">>

RawA == <<"h", "t", "t", "p", "s", ":", "/", "/", "e", "0", ".", "3", "6", "5", "d", "m", ".", "c", "o", "m", "/", "o", "n", "e", ".", "j", "p", "g">>
RawB == <<"h", "t", "t", "p", "s", ":", "/", "/", "e", "0", ".", "3", "6", "5", "d", "m", ".", "c", "o", "m", "/", "t", "w", "o", ".", "p", "n", "g", "?", "w", "=", "8", "0", "0">>

\* a scraped listing entry, with the text the content extraction will return
Scraped(title, image, content) == [title |-> title, image |-> image, content |-> content]

SportsListings ==
  { Scraped(StoryTitle(1), RawA, Words(40)),
    Scraped(StoryTitle(2), RawB, Words(30)),
    Scraped(StoryTitle(1), <<>>, Words(30)),
    Scraped(StoryTitle(2), RawA, <<>>),
    Scraped(StoryTitle(3), RawB, Words(40)) }

RECURSIVE ListingsOfLen(_)
ListingsOfLen(n) ==
  IF n = 0 THEN {<<>>}
  ELSE {Append(l, a) : l \in ListingsOfLen(n - 1), a \in SportsListings}

\* the origins behind the CDN: in the first the JPEG is served and the PNG is gone,
\* in the second the JPEG host is dead and the PNG address serves a page
RunWorlds ==
  { (ImageUrlOf(RawA) :> Serving(Jpeg(MaxImageLen), <<"i", "m", "a", "g", "e", "/", "j", "p", "e", "g">>)) @@
    (ImageUrlOf(RawB) :> DeadOrigin),
    (ImageUrlOf(RawA) :> DeadOrigin) @@
    (ImageUrlOf(RawB) :> Serving(Png(MaxImageLen), <<"i", "m", "a", "g", "e", "/", "p", "n", "g">>)),
    (ImageUrlOf(RawA) :> Serving(Html(2000), <<"t", "e", "x", "t", "/", "h", "t", "m", "l">>)) @@
    (ImageUrlOf(RawB) :> Serving(WebP(MaxImageLen), <<>>)) }

NotPosted == [nil |-> TRUE, title |-> <<>>, tweetId |-> <<>>, tweetUrl |-> <<>>]

NoRun ==
  [twitterEnabled |-> FALSE, entertainment |-> <<>>, sports |-> <<>>, library |-> {}]

HandlerIdle ==
  /\ hIn = NoRun
  /\ hpc = "idle"
  /\ hIdx = 0
  /\ validSportsArticles = <<>>
  /\ bestArticlePosted = NotPosted
  /\ stored = <<>>
  /\ twitterPosts = 0
  /\ postToXCalls = 0

HandlerInit ==
  /\ hIn \in [twitterEnabled : BOOLEAN,
               entertainment : {<<>>, <<Scraped(StoryTitle(3), RawA, Words(20))>>},
               sports : UNION {ListingsOfLen(n) : n \in 0..MaxSports},
               library : {{}, {StoryTitle(2)}}]
  /\ hpc = "entertainment"
  /\ hIdx = 0
  /\ validSportsArticles = <<>>
  /\ bestArticlePosted = NotPosted
  /\ stored = <<>>
  /\ twitterPosts = 0
  /\ postToXCalls = 0

\* the select and publish steps before the handler reaches them
RunSelectIdle ==
  /\ batch = [absent |-> TRUE, items |-> <<>>]
  /\ web \in RunWorlds
  /\ sorted = <<>>
  /\ idx = 0
  /\ tried = <<>>
  /\ picked = NoArticle
  /\ spc = "idle"

\* client.fetch('*[_type=="news" && title==$title][0]'): a document with the title
Existing(title) ==
  title \in hIn.library \/ \E k \in 1..Len(stored) : stored[k].title = title

NoTwitterData == [postedToTwitter |-> FALSE, tweetId |-> <<>>, tweetUrl |-> <<>>]

\* the document client.create stores
Document(a, category, twitterData) ==
  [title |-> a.title, category |-> category,
   postedToTwitter |-> twitterData.postedToTwitter,
   tweetId |-> twitterData.tweetId, tweetUrl |-> twitterData.tweetUrl]

\* saveArticleToSanity validates and posts only under "twitterEnabled && category === sport"
SaveTwitterCheck(category, twitterEnabled) == twitterEnabled /\ category = "sport"

\* one iteration of the entertainment loop: saveArticleToSanity(article, "entertainment", false)
SaveEntertainment ==
  /\ hpc = "entertainment"
  /\ hIdx < Len(hIn.entertainment)
  /\ LET a == hIn.entertainment[hIdx + 1]
     IN IF Existing(a.title)
        THEN UNCHANGED <<stored, postToXCalls>>
        ELSE /\ postToXCalls' =
                  postToXCalls + (IF SaveTwitterCheck("entertainment", FALSE) THEN 1 ELSE 0)
             /\ \E created \in BOOLEAN :
                  stored' = IF created
                            THEN Append(stored, Document(a, "entertainment", NoTwitterData))
                            ELSE stored
  /\ hIdx' = hIdx + 1
  /\ UNCHANGED <<hIn, hpc, validSportsArticles, bestArticlePosted, twitterPosts,
                 composeVars, validateVars, selectVars, publishVars,
                 dualVars, fetchVars>>

\* the first sports loop: duplicates are skipped, the others get content and imageUrl
CollectSports ==
  /\ hpc = "entertainment"
  /\ hIdx = Len(hIn.entertainment)
  /\ LET IsNew(a) == ~Existing(a.title)
         fresh == SelectSeq(hIn.sports, IsNew)
     IN validSportsArticles' =
          [k \in 1..Len(fresh) |->
             [title |-> fresh[k].title, content |-> fresh[k].content,
              imageUrl |-> ImageUrlOf(fresh[k].image)]]
  /\ hpc' = "select"
  /\ hIdx' = 0
  /\ UNCHANGED <<hIn, bestArticlePosted, stored, twitterPosts, postToXCalls,
                 composeVars, validateVars, selectVars, publishVars,
                 dualVars, fetchVars>>

\* articlesForSelection: what the handler hands to pickBestArticle
ArticlesForSelection(valid) ==
  [k \in 1..Len(valid) |->
     [nil |-> FALSE, title |-> valid[k].title, content |-> valid[k].content,
      description |-> <<>>, image |-> valid[k].imageUrl,
      urlToImage |-> valid[k].imageUrl, category |-> "sport", cached |-> FALSE,
      validated |-> NoValidated]]

\* "if (twitterEnabled && validSportsArticles.length > 0)": pickBestArticle is called
BeginSelect ==
  /\ hpc = "select"
  /\ IF hIn.twitterEnabled /\ Len(validSportsArticles) > 0
     THEN /\ batch' = [absent |-> FALSE, items |-> ArticlesForSelection(validSportsArticles)]
          /\ spc' = "start"
          /\ hpc' = "selecting"
     ELSE /\ hpc' = "store"
          /\ UNCHANGED <<batch, spc>>
  /\ UNCHANGED <<hIn, hIdx, validSportsArticles, bestArticlePosted, stored, twitterPosts,
                 postToXCalls, web, sorted, idx, tried, picked,
                 composeVars, validateVars, publishVars,
                 dualVars, fetchVars>>

\* "if (bestArticle)": postToX(bestArticle) is called, or the posting is skipped;
\* an exception of pickBestArticle ends the run in the handler's catch block
BeginPost ==
  /\ hpc = "selecting"
  /\ spc \in {"done", "thrown"}
  /\ IF spc = "thrown"
     THEN /\ hpc' = "failed"
          /\ UNCHANGED <<article, platform, ppc, postToXCalls>>
     ELSE IF picked.nil
     THEN /\ hpc' = "store"
          /\ UNCHANGED <<article, platform, ppc, postToXCalls>>
     ELSE /\ article' = picked
          /\ platform' \in [origin : {OriginOf(web, ImageUrlToPost(picked))},
                            uploads : Scripts(MaxRunScript), tweet : TweetAnswers,
                            shortener : {ShortenerDown}, today : {Today}]
          /\ ppc' = "start"
          /\ postToXCalls' = postToXCalls + 1
          /\ hpc' = "posting"
  /\ UNCHANGED <<hIn, hIdx, validSportsArticles, bestArticlePosted, stored, twitterPosts,
                 tweetText, imageBuffer, mediaId, calls, outcome,
                 composeVars, validateVars, selectVars,
                 dualVars, fetchVars>>

\* what the handler keeps of the result of postToX: nothing unless it reports success
PostedFrom(best, twitterResult) ==
  IF twitterResult.kind = "returned" /\ twitterResult.success
  THEN [nil |-> FALSE, title |-> best.title, tweetId |-> twitterResult.tweetId,
        tweetUrl |-> twitterResult.tweetUrl]
  ELSE NotPosted

\* postToX has ended: "if (twitterResult.success)", and the catch around the call
EndPost ==
  /\ hpc = "posting"
  /\ ppc = "done"
  /\ bestArticlePosted' = PostedFrom(article, outcome)
  /\ twitterPosts' = IF PostedFrom(article, outcome).nil THEN twitterPosts ELSE 1
  /\ hpc' = "store"
  /\ UNCHANGED <<hIn, hIdx, validSportsArticles, stored, postToXCalls,
                 composeVars, validateVars, selectVars, publishVars,
                 dualVars, fetchVars>>

\* a variant that marks the selected article whatever postToX returned
WasPostedToTwitter_Selected(posted, a) == a.title = article.title

\* "bestArticlePosted && bestArticlePosted.title === article.title"
WasPostedToTwitter(posted, a) == ~posted.nil /\ posted.title = a.title

TwitterDataOf(posted, a) ==
  IF WasPostedToTwitter(posted, a)
  THEN [postedToTwitter |-> TRUE, tweetId |-> posted.tweetId, tweetUrl |-> posted.tweetUrl]
  ELSE NoTwitterData

\* one iteration of the second sports loop: client.create of the document, which may fail
StoreSports ==
  /\ hpc = "store"
  /\ hIdx < Len(validSportsArticles)
  /\ \E created \in BOOLEAN :
       stored' =
         IF created
         THEN Append(stored,
                     Document(validSportsArticles[hIdx + 1], "sport",
                              TwitterDataOf(bestArticlePosted, validSportsArticles[hIdx + 1])))
         ELSE stored
  /\ hIdx' = hIdx + 1
  /\ UNCHANGED <<hIn, hpc, validSportsArticles, bestArticlePosted, twitterPosts,
                 postToXCalls, composeVars, validateVars, selectVars, publishVars,
                 dualVars, fetchVars>>

\* the response of the run
Respond ==
  /\ hpc = "store"
  /\ hIdx = Len(validSportsArticles)
  /\ hpc' = "done"
  /\ UNCHANGED <<hIn, hIdx, validSportsArticles, bestArticlePosted, stored, twitterPosts,
                 postToXCalls, composeVars, validateVars, selectVars, publishVars,
                 dualVars, fetchVars>>

----------------------------------------------------------------------------
(* The dual-API handler: fetch from two news APIs, save one article per    *)
(* category, then pickBestArticle and postToX of api/twitter_bot.js        *)

NoRequest == [authorized |-> FALSE]
NoNews == [entertainment |-> <<>>, sports |-> <<>>]
NoResponse == [status |-> 0, entertainment |-> 0, sports |-> 0, twitterPosted |-> FALSE]

DualIdle ==
  /\ req = NoRequest
  /\ news = NoNews
  /\ dpc = "idle"
  /\ bestArticle = NoArticle
  /\ twitterSuccess = FALSE
  /\ res = NoResponse

\* the articles the news APIs return after mapping: urlToImage, and no image field
DualStories(pos) ==
  { Story(pos, Words(30), <<>>, <<>>, AliveJpeg),
    Story(pos, <<>>, Words(10), <<>>, AlivePng),
    Story(pos, Words(40), <<>>, <<>>, DeadUrl),
    Story(pos, Words(20), <<>>, <<>>, <<>>) }

DualInit ==
  /\ req \in [authorized : BOOLEAN]
  /\ news \in [entertainment : {<<>>} \cup {<<a>> : a \in DualStories(1)},
               sports : {<<>>} \cup {<<a>> : a \in DualStories(1) \cup DualStories(2)}]
  /\ dpc = "authorize"
  /\ bestArticle = NoArticle
  /\ twitterSuccess = FALSE
  /\ res = NoResponse

\* the select step before the handler reaches it, and the origins of the images
DualSelectIdle ==
  /\ batch = [absent |-> TRUE, items |-> <<>>]
  /\ web \in Worlds
  /\ sorted = <<>>
  /\ idx = 0
  /\ tried = <<>>
  /\ picked = NoArticle
  /\ spc = "idle"

\* "article.title && article.title.length > 1 && article.urlToImage"
filterArticles(articles) ==
  SelectSeq(articles, LAMBDA a : Len(a.title) > 1 /\ Len(a.urlToImage) > 0)

\* the value of a call of an async function that is not awaited: a Promise, which is
\* an object (truthy) and has no title, urlToImage or image property
PromiseOf(call) == [NoArticle EXCEPT !.nil = FALSE]

\* the document saveToSanity creates
DualDocument(a, category) == [title |-> a.title, category |-> category]

\* one save loop: saveToSanity on each article until one is created; up tells whether
\* client.create succeeds in this run
RECURSIVE SaveLoop(_, _, _, _, _)
SaveLoop(articles, k, category, docs, up) ==
  IF k > Len(articles) THEN [docs |-> docs, count |-> 0]
  ELSE IF up /\ ~(\E d \in 1..Len(docs) : docs[d].title = articles[k].title)
  THEN [docs |-> Append(docs, DualDocument(articles[k], category)), count |-> 1]
  ELSE SaveLoop(articles, k + 1, category, docs, up)

\* the bearer token check: 401, or the run starts
DualAuthorize ==
  /\ dpc = "authorize"
  /\ IF ~req.authorized
     THEN /\ res' = [NoResponse EXCEPT !.status = 401]
          /\ dpc' = "done"
     ELSE /\ dpc' = "save"
          /\ UNCHANGED res
  /\ UNCHANGED <<req, news, bestArticle, twitterSuccess,
                 composeVars, validateVars, selectVars, publishVars, handlerVars, fetchVars>>

\* filterArticles on both lists and the two save loops
DualSave ==
  /\ dpc = "save"
  /\ \E up \in BOOLEAN :
       LET Sports(first) ==
             LET second == SaveLoop(filterArticles(news.sports), 1, "sport", first.docs, up)
             IN /\ stored' = second.docs
                /\ res' = [res EXCEPT !.entertainment = first.count,
                                      !.sports = second.count]
       IN Sports(SaveLoop(filterArticles(news.entertainment), 1, "entertainment",
                          stored, up))
  /\ dpc' = "select"
  /\ UNCHANGED <<req, news, bestArticle, twitterSuccess,
                 hIn, hpc, hIdx, validSportsArticles, bestArticlePosted, twitterPosts,
                 postToXCalls,
                 composeVars, validateVars, selectVars, publishVars, fetchVars>>

\* "const bestArticle = pickBestArticle([...entertainmentNews, ...sportsNews])": the
\* call is started and not awaited
DualSelect ==
  /\ dpc = "select"
  /\ batch' = [absent |-> FALSE,
               items |-> filterArticles(news.entertainment) \o filterArticles(news.sports)]
  /\ spc' = "start"
  /\ bestArticle' = PromiseOf("pickBestArticle")
  /\ dpc' = "post"
  /\ UNCHANGED <<req, news, twitterSuccess, res, web, sorted, idx, tried, picked,
                 composeVars, validateVars, publishVars, handlerVars, fetchVars>>

\* "if (bestArticle)": postToX(bestArticle) is called, or the posting is skipped
DualBeginPost ==
  /\ dpc = "post"
  /\ IF bestArticle.nil
     THEN /\ dpc' = "respond"
          /\ UNCHANGED <<article, platform, ppc>>
     ELSE /\ article' = bestArticle
          /\ platform' \in [origin : {DeadOrigin}, uploads : Scripts(MaxRunScript),
                            tweet : TweetAnswers, shortener : {ShortenerDown},
                            today : {Today}]
          /\ ppc' = "start"
          /\ dpc' = "posting"
  /\ UNCHANGED <<req, news, bestArticle, twitterSuccess, res,
                 tweetText, imageBuffer, mediaId, calls, outcome,
                 composeVars, validateVars, selectVars, handlerVars, fetchVars>>

\* "await postToX(bestArticle); twitterSuccess = true" in a try block whose catch logs
TwitterSuccessOf(result) == result.kind # "thrown"

DualEndPost ==
  /\ dpc = "posting"
  /\ ppc = "done"
  /\ twitterSuccess' = TwitterSuccessOf(outcome)
  /\ dpc' = "respond"
  /\ UNCHANGED <<req, news, bestArticle, res,
                 composeVars, validateVars, selectVars, publishVars, handlerVars, fetchVars>>

\* res.status(200).json({..., stats: {..., twitterPosted: twitterSuccess}})
DualRespond ==
  /\ dpc = "respond"
  /\ res' = [res EXCEPT !.status = 200, !.twitterPosted = twitterSuccess]
  /\ dpc' = "done"
  /\ UNCHANGED <<req, news, bestArticle, twitterSuccess,
                 composeVars, validateVars, selectVars, publishVars, handlerVars, fetchVars>>

----------------------------------------------------------------------------
(* fetchFromNewsAPI and fetchFromNewsData                                  *)

MaxRetries == 3

NotFetched == [kind |-> "none", articles |-> <<>>]

FetchIdle ==
  /\ fIn = [api |-> "", retries |-> 0, answers |-> <<>>]
  /\ fpc = "idle"
  /\ attempt = 0
  /\ requests = <<>>
  /\ fOut = NotFetched

\* an article as newsapi.org lists it, and as newsdata.io lists it
RawNewsAPI(title, image) ==
  [nil |-> FALSE, title |-> title, description |-> Words(10), content |-> Words(20),
   urlToImage |-> image, url |-> <<"h", "t", "t", "p", "s", ":", "/", "/", "e", "s", "p", "n", ".", "c", "o", "m", "/", "a">>, sourceName |-> <<"E", "S", "P", "N">>,
   author |-> <<"S", "t", "a", "f", "f">>, publishedAt |-> <<"2", "0", "2", "5", "-", "0", "1", "-", "1", "5", "T", "0", "8", ":", "0", "0", ":", "0", "0", "Z">>]
RawNewsData(title, image) ==
  [nil |-> FALSE, title |-> title, description |-> Words(10), content |-> Words(20),
   image_url |-> image, link |-> <<"h", "t", "t", "p", "s", ":", "/", "/", "p", "u", "n", "c", "h", "n", "g", ".", "c", "o", "m", "/", "b">>, source_name |-> <<>>,
   source_id |-> <<"p", "u", "n", "c", "h", "n", "g">>, creator |-> <<<<"D", "e", "s", "k">>, <<"W", "i", "r", "e">>>>,
   pubDate |-> <<"2", "0", "2", "5", "-", "0", "1", "-", "1", "5", " ", "0", "8", ":", "0", "0", ":", "0", "0">>]
NullEntry == [nil |-> TRUE]

\* what the API answers to one request: no response (timeout, network, HTTP error), or
\* a 2xx body, which holds the list (data.articles, data.results) or does not
NoAnswer == [responded |-> FALSE, hasList |-> FALSE, list |-> <<>>]
BodyWith(list) == [responded |-> TRUE, hasList |-> TRUE, list |-> list]
BodyWithoutList == [responded |-> TRUE, hasList |-> FALSE, list |-> <<>>]

\* the object the map callback of fetchFromNewsAPI builds
MapNewsAPI(a) ==
  [title |-> a.title, description |-> a.description, content |-> a.content,
   urlToImage |-> a.urlToImage, url |-> a.url, source |-> a.sourceName,
   author |-> a.author, publishedAt |-> a.publishedAt]

\* the object the map callback of fetchFromNewsData builds
MapNewsData(a) ==
  [title |-> a.title, description |-> a.description, content |-> a.content,
   urlToImage |-> a.image_url, url |-> a.link,
   source |-> Or(a.source_name, a.source_id),
   author |-> IF Len(a.creator) > 0 THEN a.creator[1] ELSE <<>>,
   publishedAt |-> a.pubDate]

\* the try block after the request: whether an error is thrown in it (no response, no
\* list to map, a null entry read by the callback)
TryThrows(answer) ==
  \/ ~answer.responded
  \/ ~answer.hasList
  \/ \E k \in 1..Len(answer.list) : answer.list[k].nil

\* data.articles.map(...), data.results.map(...)
Mapped(api, list) ==
  [k \in 1..Len(list) |->
     IF api = "NewsAPI" THEN MapNewsAPI(list[k]) ELSE MapNewsData(list[k])]

FetchReturns(articles) == [kind |-> "returned", articles |-> articles]

\* a variant of the loop that goes one pass further
LoopGoesOn_Inclusive(i, retries) == i <= retries

\* "for (let i = 0; i < retries; i++)"
LoopGoesOn(i, retries) == i < retries

\* one pass of the loop: the request, then the return of the mapped list, or the catch
\* block, which returns [] on the last pass and pauses before the next one otherwise
FetchRequest ==
  /\ fpc = "loop"
  /\ LoopGoesOn(attempt, fIn.retries)
  /\ LET Pass(answer) ==
           /\ requests' = Append(requests, answer)
           /\ IF ~TryThrows(answer)
              THEN /\ fOut' = FetchReturns(Mapped(fIn.api, answer.list))
                   /\ fpc' = "done"
                   /\ UNCHANGED attempt
              ELSE IF attempt = fIn.retries - 1
              THEN /\ fOut' = FetchReturns(<<>>)
                   /\ fpc' = "done"
                   /\ UNCHANGED attempt
              ELSE /\ attempt' = attempt + 1
                   /\ UNCHANGED <<fOut, fpc>>
     IN Pass(fIn.answers[attempt + 1])
  /\ UNCHANGED <<fIn, composeVars, validateVars, selectVars, publishVars, handlerVars,
                 dualVars>>

\* the loop is left without a return: "return []"
FetchGiveUp ==
  /\ fpc = "loop"
  /\ ~LoopGoesOn(attempt, fIn.retries)
  /\ fOut' = FetchReturns(<<>>)
  /\ fpc' = "done"
  /\ UNCHANGED <<fIn, attempt, requests, composeVars, validateVars, selectVars, publishVars,
                 handlerVars, dualVars>>

\* the answers to successive requests of one call
FetchAnswers(api) ==
  { NoAnswer, BodyWithoutList, BodyWith(<<>>),
    IF api = "NewsAPI"
    THEN BodyWith(<<RawNewsAPI(StoryTitle(1), AliveJpeg), RawNewsAPI(StoryTitle(2), <<>>)>>)
    ELSE BodyWith(<<RawNewsData(StoryTitle(1), AlivePng), RawNewsData(StoryTitle(2), <<>>)>>),
    IF api = "NewsAPI"
    THEN BodyWith(<<RawNewsAPI(StoryTitle(3), AliveJpeg), NullEntry>>)
    ELSE BodyWith(<<RawNewsData(StoryTitle(3), AliveJpeg), NullEntry>>) }

RECURSIVE AnswerScripts(_, _)
AnswerScripts(api, n) ==
  IF n = 0 THEN {<<>>}
  ELSE {Append(u, a) : u \in AnswerScripts(api, n - 1), a \in FetchAnswers(api)}

FetchInit ==
  /\ \E api \in {"NewsAPI", "NewsData"} :
       fIn \in [api : {api}, retries : 0..MaxRetries,
                answers : AnswerScripts(api, MaxRetries + 1)]
  /\ fpc = "loop"
  /\ attempt = 0
  /\ requests = <<>>
  /\ fOut = NotFetched

----------------------------------------------------------------------------
(* postToX of the versions that test the destination link on the platform  *)
(* (shortenUrlIfBlocked): the strict version, which rethrows every error,  *)
(* and the lenient one, which posts without media when the image fails,    *)
(* tries the post three times and swallows the last error                  *)

MaxTweetAttempts == 3

\* the characters sanitizeText rewrites, by name: the four curly quotes, the zero-width space
CurlyQuotes == {"ldquo", "rdquo", "lsquo", "rsquo"}
ZeroWidthSpace == "zwsp"

\* sanitizeText(text)
sanitizeText(text) ==
  Trim(CollapseWhitespace(
    SelectSeq([i \in 1..Len(text) |-> IF text[i] \in CurlyQuotes THEN "'" ELSE text[i]],
              LAMBDA c : c # ZeroWidthSpace)))

\* encodeURI over the characters explored: a space and "%" are escaped
encodeURI(text) ==
  CatRange([i \in 1..Len(text) |->
              IF text[i] = " " THEN <<"%", "2", "0">>
              ELSE IF text[i] = "%" THEN <<"%", "2", "5">>
              ELSE <<text[i]>>],
           1, Len(text))

\* createPostUrl(post) of these versions: the URL goes through encodeURI
createPostUrlEncoded(post, date) == encodeURI(createPostUrl(post, date))

\* the link sign of the tail: one emoji, two UTF-16 code units
LinkSign == <<"U+D83D", "U+DD17">>

\* createTweetText(article, postUrl) of these versions
createTweetTextReadMore(a, postUrl) ==
  LET Compose(title, words, readMore) ==
        LET Fit(snippet) ==
              IF Len(title \o <<"\n", "\n">> \o snippet \o readMore) > maxTweetLength
              THEN title \o <<"\n", "\n">>
                     \o Substring0(snippet, maxTweetLength - Len(title) - Len(readMore) - 5)
                     \o <<".", ".", ".">> \o readMore
              ELSE title \o <<"\n", "\n">> \o snippet \o readMore
        IN Fit(Join(Slice0(words, WordCap), <<" ">>)
                 \o (IF Len(words) > WordCap THEN <<".", ".", ".">> ELSE <<>>))
  IN Compose(sanitizeText(a.title), Split(sanitizeText(Source(a)), {" "}, FALSE),
             <<"\n", "\n", "R", "e", "a", "d", " ", "m", "o", "r", "e", " ">> \o LinkSign \o <<" ">> \o postUrl)

\* the text of the post shortenUrlIfBlocked sends to test the domain
TestText(url) == <<"T", "e", "s", "t", "i", "n", "g", " ">> \o url

\* "err.data.errors.some(e => e.message.includes('invalid URL'))"
IsInvalidStrict(probe) == ~probe.ok /\ Includes(probe.detail, <<"i", "n", "v", "a", "l", "i", "d", " ", "U", "R", "L">>)

\* "err.data.errors.some(e => e.message.toLowerCase().includes('invalid url'))"
IsInvalidLenient(probe) == ~probe.ok /\ Includes(ToLowerCase(probe.detail), <<"i", "n", "v", "a", "l", "i", "d", " ", "u", "r", "l">>)

\* shortenUrlIfBlocked(url): the URL to use and the requests issued, the test post first
shortenUrlIfBlocked(url, probe, isInvalid, answer) ==
  [url |-> IF ~probe.ok /\ isInvalid /\ answer.ok THEN answer.tinyUrl ELSE url,
   calls |-> <<Call("tweet", probe.ok, <<>>, TestText(url), "")>>
               \o (IF ~probe.ok /\ isInvalid
                   THEN <<Call("shorten", answer.ok, <<>>, url, "")>> ELSE <<>>)]

\* the posts created on the platform by the calls so far
Posts == SelectSeq(calls, LAMBDA c : c.op = "tweet" /\ c.ok)

\* the v2.tweet calls that carry the article text
ArticleTweetCalls == SelectSeq(calls, LAMBDA c : c.op = "tweet" /\ c.text = tweetText)

\* "return tweet.data"
Posted(tweetId) == [NoOutcome EXCEPT !.kind = "returned", !.success = TRUE, !.tweetId = tweetId]

\* the catch block of the strict version: it logs and rethrows
Rethrown(error) == [NoOutcome EXCEPT !.kind = "thrown", !.error = error.message]

\* the catch block of the lenient version: it logs, and the call returns undefined
Swallowed(error) == [NoOutcome EXCEPT !.kind = "returned", !.error = error.message]

\* axios.get(url, {maxContentLength: 5 MiB}): the buffer, or the error
DownloadError(get) ==
  IF Len(get.error) > 0 THEN Error(get.error)
  ELSE IF get.body.length > FiveMiB THEN Error(<<"m", "a", "x", "C", "o", "n", "t", "e", "n", "t", "L", "e", "n", "g", "t", "h", " ", "s", "i", "z", "e", " ", "e", "x", "c", "e", "e", "d", "e", "d">>)
  ELSE NoError

\* strict version: the checks, createPostUrl, shortenUrlIfBlocked and createTweetText
StrictStart ==
  /\ ppc = "strict:start"
  /\ IF article.nil \/ Len(article.title) = 0
     THEN /\ outcome' = Rethrown(Error(<<"C", "a", "n", "n", "o", "t", " ", "r", "e", "a", "d", " ", "p", "r", "o", "p", "e", "r", "t", "i", "e", "s", " ", "o", "f", " ", "u", "n", "d", "e", "f", "i", "n", "e", "d", " ", "(", "r", "e", "a", "d", "i", "n", "g", " ", "'", "s", "l", "i", "c", "e", "'", ")">>))
          /\ ppc' = "done"
          /\ UNCHANGED <<tweetText, calls>>
     ELSE IF Len(article.urlToImage) = 0
     THEN /\ outcome' = Rethrown(Error(<<"M", "i", "s", "s", "i", "n", "g", " ", "t", "i", "t", "l", "e", " ", "o", "r", " ", "i", "m", "a", "g", "e", " ", "i", "n", " ", "a", "r", "t", "i", "c", "l", "e">>))
          /\ ppc' = "done"
          /\ UNCHANGED <<tweetText, calls>>
     ELSE LET Body(link) ==
                /\ calls' = calls \o link.calls
                /\ tweetText' = createTweetTextReadMore(article, link.url)
              Test(url) ==
                Body(shortenUrlIfBlocked(url, platform.probe, IsInvalidStrict(platform.probe),
                                         platform.shortener))
          IN /\ Test(createPostUrlEncoded(article, platform.today))
             /\ ppc' = "strict:image"
             /\ UNCHANGED outcome
  /\ UNCHANGED <<article, platform, imageBuffer, mediaId,
                 composeVars, validateVars, selectVars, handlerVars, dualVars, fetchVars>>

\* strict version: downloadImageBuffer(article.urlToImage), which throws when the transfer fails
StrictGetImage ==
  /\ ppc = "strict:image"
  /\ LET Body(get, error) ==
           /\ calls' = Append(calls, Call("get", Len(error.message) = 0, <<>>, <<>>, ""))
           /\ IF Len(error.message) > 0
              THEN outcome' = Rethrown(error) /\ ppc' = "done" /\ UNCHANGED imageBuffer
              ELSE imageBuffer' = get.body /\ ppc' = "strict:upload" /\ UNCHANGED outcome
     IN Body(platform.origin.get, DownloadError(platform.origin.get))
  /\ UNCHANGED <<article, platform, tweetText, mediaId,
                 composeVars, validateVars, selectVars, handlerVars, dualVars, fetchVars>>

\* strict version: uploadMedia(imageBuffer, {mimeType: "image/jpeg"}), once
StrictUpload ==
  /\ ppc = "strict:upload"
  /\ LET Body(result) ==
           /\ calls' = Append(calls, Call("uploadMedia", result.ok, result.mediaId, <<>>,
                                          "image/jpeg"))
           /\ IF result.ok
              THEN mediaId' = result.mediaId /\ ppc' = "strict:tweet" /\ UNCHANGED outcome
              ELSE outcome' = Rethrown(result.error) /\ ppc' = "done" /\ UNCHANGED mediaId
     IN Body(platform.uploads[1])
  /\ UNCHANGED <<article, platform, tweetText, imageBuffer,
                 composeVars, validateVars, selectVars, handlerVars, dualVars, fetchVars>>

\* strict version: v2.tweet({text: tweetText, media}), once
StrictTweet ==
  /\ ppc = "strict:tweet"
  /\ LET Body(result) ==
           /\ calls' = Append(calls, Call("tweet", result.ok, mediaId, tweetText, ""))
           /\ outcome' = IF result.ok THEN Posted(result.tweetId) ELSE Rethrown(result.error)
     IN Body(platform.tweets[1])
  /\ ppc' = "done"
  /\ UNCHANGED <<article, platform, tweetText, imageBuffer, mediaId,
                 composeVars, validateVars, selectVars, handlerVars, dualVars, fetchVars>>

\* lenient version: the title check, createPostUrl, shortenUrlIfBlocked and createTweetText
LenientStart ==
  /\ ppc = "lenient:start"
  /\ IF article.nil \/ Len(article.title) = 0
     THEN /\ outcome' = Swallowed(Error(<<"M", "i", "s", "s", "i", "n", "g", " ", "a", "r", "t", "i", "c", "l", "e", " ", "t", "i", "t", "l", "e">>))
          /\ ppc' = "done"
          /\ UNCHANGED <<tweetText, calls>>
     ELSE LET Body(link) ==
                /\ calls' = calls \o link.calls
                /\ tweetText' = createTweetTextReadMore(article, link.url)
              Test(url) ==
                Body(shortenUrlIfBlocked(url, platform.probe, IsInvalidLenient(platform.probe),
                                         platform.shortener))
          IN /\ Test(encodeURI(createPostUrlEncoded(article, platform.today)))
             /\ ppc' = IF Len(article.urlToImage) > 0 THEN "lenient:image" ELSE "lenient:tweet"
             /\ UNCHANGED outcome
  /\ UNCHANGED <<article, platform, imageBuffer, mediaId,
                 composeVars, validateVars, selectVars, handlerVars, dualVars, fetchVars>>

\* lenient version: downloadImageBuffer(article.urlToImage), which returns null when the transfer fails
LenientGetImage ==
  /\ ppc = "lenient:image"
  /\ LET Body(get, error) ==
           /\ calls' = Append(calls, Call("get", Len(error.message) = 0, <<>>, <<>>, ""))
           /\ IF Len(error.message) > 0
              THEN ppc' = "lenient:tweet" /\ UNCHANGED imageBuffer
              ELSE imageBuffer' = get.body /\ ppc' = "lenient:upload"
     IN Body(platform.origin.get, DownloadError(platform.origin.get))
  /\ UNCHANGED <<article, platform, tweetText, mediaId, outcome,
                 composeVars, validateVars, selectVars, handlerVars, dualVars, fetchVars>>

\* lenient version: uploadMedia(imgBuffer, {mimeType: "image/jpeg"}); a failure is logged
LenientUpload ==
  /\ ppc = "lenient:upload"
  /\ LET Body(result) ==
           /\ calls' = Append(calls, Call("uploadMedia", result.ok, result.mediaId, <<>>,
                                          "image/jpeg"))
           /\ mediaId' = IF result.ok THEN result.mediaId ELSE mediaId
     IN Body(platform.uploads[1])
  /\ ppc' = "lenient:tweet"
  /\ UNCHANGED <<article, platform, tweetText, imageBuffer, outcome,
                 composeVars, validateVars, selectVars, handlerVars, dualVars, fetchVars>>

\* lenient version: one pass of the loop "for (attempt = 1; attempt <= 3; attempt++)" around v2.tweet
LenientTweet ==
  /\ ppc = "lenient:tweet"
  /\ Len(ArticleTweetCalls) < MaxTweetAttempts
  /\ LET Body(attempts, result) ==
           /\ calls' = Append(calls, Call("tweet", result.ok, mediaId, tweetText, ""))
           /\ IF result.ok
              THEN outcome' = Posted(result.tweetId) /\ ppc' = "done"
              ELSE IF attempts = MaxTweetAttempts
              THEN outcome' = Swallowed(result.error) /\ ppc' = "done"
              ELSE UNCHANGED <<outcome, ppc>>
         Try(attempts) == Body(attempts, platform.tweets[attempts])
     IN Try(Len(ArticleTweetCalls) + 1)
  /\ UNCHANGED <<article, platform, tweetText, imageBuffer, mediaId,
                 composeVars, validateVars, selectVars, handlerVars, dualVars, fetchVars>>

\* what the platform answers to the test post
ProbeAnswers ==
  { [ok |-> TRUE, detail |-> <<>>],
    [ok |-> FALSE, detail |-> <<"Y", "o", "u", "r", " ", "T", "w", "e", "e", "t", " ", "t", "e", "x", "t", " ", "c", "o", "n", "t", "a", "i", "n", "s", " ", "a", "n", " ", "i", "n", "v", "a", "l", "i", "d", " ", "U", "R", "L", ".">>],
    [ok |-> FALSE, detail |-> <<"I", "n", "v", "a", "l", "i", "d", " ", "U", "R", "L", " ", "i", "n", " ", "t", "e", "x", "t">>],
    [ok |-> FALSE, detail |-> <<"T", "o", "o", " ", "M", "a", "n", "y", " ", "R", "e", "q", "u", "e", "s", "t", "s">>] }

\* what the platform answers to the successive posts of the article text
RECURSIVE TweetScripts(_)
TweetScripts(n) ==
  IF n = 0 THEN {<<>>}
  ELSE {Append(u, a) : u \in TweetScripts(n - 1),
                       a \in {TweetOk, CHOOSE t \in TweetAnswers : t.error.code = 429}}

ProbedInputs ==
  { [article |-> NoArticle, origin |-> DeadOrigin],
    [article |-> Story(1, Words(30), <<>>, <<>>, <<>>), origin |-> DeadOrigin],
    [article |-> Story(1, Words(30), <<>>, <<>>, DeadUrl), origin |-> DeadOrigin],
    [article |-> Story(1, Words(30), <<>>, <<>>, AliveJpeg),
     origin |-> Serving(Jpeg(MaxImageLen), <<"i", "m", "a", "g", "e", "/", "j", "p", "e", "g">>)],
    [article |-> [Story(1, Words(MaxBodyLen), <<>>, <<>>, AlivePng)
                    EXCEPT !.title = <<" ", "T", "r", "a", "n", "s", "f", "e", "r", " ", " ", "n", "e", "w", "s", ":", " ">> \o <<"ldquo">> \o <<"d", "o", "n", "e">> \o <<"rdquo", " ">>],
     origin |-> Serving(Png(MaxImageLen), <<"i", "m", "a", "g", "e", "/", "p", "n", "g">>)] }

PublishInitProbed ==
  /\ \E in \in ProbedInputs :
       /\ article = in.article
       /\ platform \in [origin : {in.origin}, uploads : Scripts(1),
                        tweets : TweetScripts(MaxTweetAttempts), probe : ProbeAnswers,
                        shortener : {ShortenerDown, ShortenerUp}, today : {Today}]
  /\ ppc \in {"strict:start", "lenient:start"}
  /\ tweetText = <<>>
  /\ imageBuffer = NoBuffer
  /\ mediaId = <<>>
  /\ calls = <<>>
  /\ outcome = NoOutcome

----------------------------------------------------------------------------
(* Specifications                                                          *)

\* the pipeline's publish step: one call of postToX
Init == ComposeIdle /\ ValidateIdle /\ SelectIdle /\ PublishInit /\ HandlerIdle /\ DualIdle /\ FetchIdle
Next == PostStart \/ PostGetImage \/ PostUpload \/ PostTweet
Spec == Init /\ [][Next]_vars

\* one call of postToX, of api/twitter_bot.js or of api/test.js
InitLink == ComposeIdle /\ ValidateIdle /\ SelectIdle /\ (PublishInit \/ PublishInitLink) /\ HandlerIdle /\ DualIdle /\ FetchIdle
NextLink ==
  \/ PostStart \/ PostGetImage \/ PostUpload \/ PostTweet
  \/ LinkStart \/ LinkGetImage \/ LinkUpload \/ LinkTweet
SpecLink == InitLink /\ [][NextLink]_vars

\* one call of pickBestArticle
InitSelect == ComposeIdle /\ ValidateIdle /\ SelectInit /\ PublishIdle /\ HandlerIdle /\ DualIdle /\ FetchIdle
NextSelect == SelectStart \/ SelectTry \/ SelectGiveUp
SpecSelect == InitSelect /\ [][NextSelect]_vars

\* one call of validateAndTestImage
InitValidate == ComposeIdle /\ ValidateInit /\ SelectIdle /\ PublishIdle /\ HandlerIdle /\ DualIdle /\ FetchIdle
NextValidate == Validate
SpecValidate == InitValidate /\ [][NextValidate]_vars

\* one call of createTweetText, of either variant
InitCompose == ComposeInit /\ ValidateIdle /\ SelectIdle /\ PublishIdle /\ HandlerIdle /\ DualIdle /\ FetchIdle
NextCompose == ComposeLink \/ ComposeTags \/ ComposeAgain
SpecCompose == InitCompose /\ [][NextCompose]_vars

\* one run of the handler: collection, pickBestArticle, postToX and the store
InitRun == ComposeIdle /\ ValidateIdle /\ RunSelectIdle /\ PublishIdle /\ HandlerInit /\ DualIdle /\ FetchIdle
NextRun ==
  \/ SaveEntertainment \/ CollectSports \/ BeginSelect
  \/ SelectStart \/ SelectTry \/ SelectGiveUp
  \/ BeginPost
  \/ PostStart \/ PostGetImage \/ PostUpload \/ PostTweet
  \/ EndPost \/ StoreSports \/ Respond
SpecRun == InitRun /\ [][NextRun]_vars

\* one run of the dual-API handler; the call of pickBestArticle it starts runs beside it
InitDual == ComposeIdle /\ ValidateIdle /\ DualSelectIdle /\ PublishIdle /\ HandlerIdle /\ DualInit /\ FetchIdle
NextDual ==
  \/ DualAuthorize \/ DualSave \/ DualSelect
  \/ SelectStart \/ SelectTry \/ SelectGiveUp
  \/ DualBeginPost \/ PostStart \/ DualEndPost \/ DualRespond
SpecDual == InitDual /\ [][NextDual]_vars

\* one call of postToX of a version that tests the link with shortenUrlIfBlocked
InitProbed == ComposeIdle /\ ValidateIdle /\ SelectIdle /\ PublishInitProbed /\ HandlerIdle /\ DualIdle /\ FetchIdle
NextProbed ==
  \/ StrictStart \/ StrictGetImage \/ StrictUpload \/ StrictTweet
  \/ LenientStart \/ LenientGetImage \/ LenientUpload \/ LenientTweet
SpecProbed == InitProbed /\ [][NextProbed]_vars

\* one call of fetchFromNewsAPI or fetchFromNewsData
InitFetch == ComposeIdle /\ ValidateIdle /\ SelectIdle /\ PublishIdle /\ HandlerIdle /\ DualIdle /\ FetchInit
NextFetch == FetchRequest \/ FetchGiveUp
SpecFetch == InitFetch /\ [][NextFetch]_vars

\* the same call, given that each request ends (axios timeout of 10 s) and each pause ends
SpecFetchLive == SpecFetch /\ WF_vars(NextFetch)

\* createTweetText on the long-article scenario
InitScenario == ScenarioInit /\ ValidateIdle /\ SelectIdle /\ PublishIdle /\ HandlerIdle /\ DualIdle /\ FetchIdle
NextScenario == ComposeLink \/ ComposeTags \/ ComposeAgain
SpecScenario == InitScenario /\ [][NextScenario]_vars

----------------------------------------------------------------------------
(* Properties                                                              *)

\* C1: every text createTweetText returns, in the link variant and in the hashtag
\* variant, for any title, body and destination link, has at most 280 characters.
C1_ComposeWithinBudget ==
  cOut.variant # "none" => Len(cOut.text) <= maxTweetLength

\* the hashtag variant alone keeps the budget (it has no link to carry)
TagsVariantWithinBudget ==
  cOut.variant = "tags" => Len(cOut.text) <= maxTweetLength

IsTransient(answer) == ~answer.ok /\ answer.class = "transient"

\* C2: the media upload is retried on transient failures up to 3 attempts: two
\* transient failures then a success make publish succeed after exactly 3 upload
\* attempts; 3 transient failures in a row make it fail with the last transient
\* reason; there is never a 4th attempt.
C2_UploadRetriedUpToThree ==
  (ppc = "done" /\ Len(UploadCalls) > 0) =>
    LET u == platform.uploads
    IN /\ Len(UploadCalls) <= 3
       /\ (IsTransient(u[1]) /\ IsTransient(u[2]) /\ u[3].ok) =>
            /\ Len(UploadCalls) = 3
            /\ platform.tweet.ok => outcome.success
       /\ (IsTransient(u[1]) /\ IsTransient(u[2]) /\ IsTransient(u[3])) =>
            /\ Len(UploadCalls) = 3
            /\ ~outcome.success
            /\ outcome.error = u[3].error.message

\* C3: a permanent error on the first upload attempt ends the call: one upload
\* attempt, no create-post call, a failure outcome.
C3_PermanentUploadErrorShortCircuits ==
  (Len(UploadCalls) > 0 /\ platform.uploads[1].class = "permanent") =>
    /\ Len(UploadCalls) = 1
    /\ Len(TweetCalls) = 0
    /\ ppc = "done"
    /\ outcome.kind = "returned"
    /\ ~outcome.success

C3_Witness ==
  /\ ppc = "done"
  /\ Len(UploadCalls) = 1
  /\ platform.uploads[1].class = "permanent"
  /\ platform.uploads[1].error.code = 401
  /\ ~outcome.success

SizeReasons == {<<"I", "m", "a", "g", "e", " ", "t", "o", "o", " ", "s", "m", "a", "l", "l", " ", "(", "l", "i", "k", "e", "l", "y", " ", "b", "r", "o", "k", "e", "n", ")">>, <<"D", "o", "w", "n", "l", "o", "a", "d", "e", "d", " ", "i", "m", "a", "g", "e", " ", "i", "s", " ", "e", "m", "p", "t", "y">>}

\* C4: a downloaded buffer of at most 1000 bytes is rejected with a size-related
\* reason, whatever the probe reported and whatever the buffer's signature.
C4_SmallBufferRejected ==
  (vOut.done /\ vOut.result.downloaded /\ vIn.get.body.length <= 1000) =>
    /\ ~vOut.result.valid
    /\ vOut.result.reason \in SizeReasons

BytesAt(buffer, offset, sig) ==
  /\ Len(buffer.magic) >= offset + Len(sig)
  /\ SubSeq(buffer.magic, offset + 1, offset + Len(sig)) = sig

\* a buffer that starts as a JPEG, PNG, GIF or WebP file does
HasSupportedSignature(buffer) ==
  \/ BytesAt(buffer, 0, <<255, 216, 255>>)
  \/ BytesAt(buffer, 0, <<137, 80, 78, 71>>)
  \/ BytesAt(buffer, 0, <<71, 73, 70>>)
  \/ BytesAt(buffer, 0, <<82, 73, 70, 70>>) /\ BytesAt(buffer, 8, <<87, 69, 66, 80>>)

C6_PickedHasValidImageUrl ==
  (spc = "done" /\ ~picked.nil) =>
    /\ IsParsableUrl(picked.urlToImage)
    /\ picked.urlToImage = tried[Len(tried)].url
    /\ Len(picked.image) > 0 => IsParsableUrl(picked.image)

\* an article with the longest content of the batch and an image reference that is no URL
C6_Witness ==
  /\ spc = "done"
  /\ ~picked.nil
  /\ \E i \in 1..Len(batch.items) :
       /\ ~batch.items[i].nil
       /\ ~IsParsableUrl(ImageUrlToValidate(batch.items[i]))
       /\ \A j \in 1..Len(batch.items) :
            ContentLength(batch.items[i]) >= ContentLength(batch.items[j])
       /\ ContentLength(batch.items[i]) > ContentLength(picked)

\* the image of the candidate validates against the origins of the run
ImageValidates(a) ==
  validateAndTestImage(ImageUrlToValidate(a), OriginOf(web, ImageUrlToValidate(a)).head,
                       OriginOf(web, ImageUrlToValidate(a)).get).valid

Candidates == SelectSeq(batch.items, IsCandidate)

\* ranked is the candidates c in descending content length
RankedByLength(ranked, c) ==
  /\ Len(ranked) = Len(c)
  /\ \A i \in 1..Len(c) : \E k \in 1..Len(ranked) : ranked[k] = c[i]
  /\ \A i, j \in 1..Len(ranked) :
       i < j => ContentLength(ranked[i]) >= ContentLength(ranked[j])

\* C7: pickBestArticle returns the first candidate, in descending content-length
\* order, whose image validates, after every higher-ranked candidate has been
\* tried and rejected.
C7_FirstValidByLength ==
  (spc = "done" /\ ~picked.nil) =>
    LET r == Len(tried)
    IN /\ RankedByLength(sorted, Candidates)
       /\ \A k \in 1..r :
            /\ tried[k].rank = k
            /\ tried[k].title = sorted[k].title
            /\ tried[k].valid = (k = r)
       /\ \A k \in 1..(r - 1) : ~ImageValidates(sorted[k])
       /\ ImageValidates(sorted[r])
       /\ picked.title = sorted[r].title

\* 5 articles, 3 candidates, one valid image, on the candidate with the shortest body
C7_Witness ==
  /\ spc = "done"
  /\ ~picked.nil
  /\ Len(batch.items) = 5
  /\ Len(Candidates) = 3
  /\ Cardinality({k \in 1..3 : ImageValidates(sorted[k])}) = 1
  /\ picked.title = sorted[3].title
  /\ ContentLength(sorted[3]) < ContentLength(sorted[2])
  /\ Len(tried) = 3

\* C8: one call validates at most 5 candidates, in rank order, none after one
\* that validates; when none of the top 5 validates it returns null, also when a
\* lower-ranked candidate has a valid image.
C8_WindowOfFive ==
  /\ Len(tried) <= 5
  /\ \A k \in 1..Len(tried) :
       /\ tried[k].rank = k
       /\ tried[k].title = sorted[k].title
       /\ tried[k].valid => k = Len(tried)
  /\ (spc = "done" /\ \A k \in 1..Min(5, Len(sorted)) : ~ImageValidates(sorted[k])) =>
       picked.nil

C8_Witness ==
  /\ spc = "done"
  /\ picked.nil
  /\ Len(tried) = 5
  /\ Len(sorted) > 5
  /\ ImageValidates(sorted[6])

\* C9: create-post is invoked at most once, only after an upload that succeeded,
\* with that upload's media handle; success is returned only if create-post
\* succeeded; a failed create-post is the last platform call and gives a failure.
C9_CreatePostOnceAfterUpload ==
  /\ Len(TweetCalls) <= 1
  /\ \A i \in 1..Len(calls) :
       calls[i].op = "tweet" =>
         /\ \E j \in 1..(i - 1) :
              /\ calls[j].op = "uploadMedia"
              /\ calls[j].ok
              /\ calls[j].mediaId = calls[i].mediaId
         /\ Len(calls[i].mediaId) > 0
         /\ ~calls[i].ok => i = Len(calls) /\ ppc = "done" /\ ~outcome.success
  /\ outcome.success => \E i \in 1..Len(calls) : calls[i].op = "tweet" /\ calls[i].ok

C9_Witness ==
  /\ ppc = "done"
  /\ Len(UploadCalls) = 1
  /\ UploadCalls[1].ok
  /\ Len(TweetCalls) = 1
  /\ ~TweetCalls[1].ok
  /\ ~outcome.success

\* C10: postToX never throws: no error escapes it, a call that has not returned
\* can take its next step, and a call that is over has returned one structured
\* outcome: success with the post id and URL, or failure with a reason.
C10_PostToXNeverThrows ==
  /\ outcome.kind # "thrown"
  /\ ppc # "done" =>
       /\ outcome.kind = "none"
       /\ ppc \in {"start", "getImage", "upload", "tweet"}
       /\ ppc = "upload" => Len(UploadCalls) < Len(platform.uploads)
       /\ ppc = "tweet" => Len(TweetCalls) < MaxTweetCalls
  /\ ppc = "done" =>
       /\ outcome.kind = "returned"
       /\ outcome.success =>
            /\ Len(outcome.tweetId) > 0
            /\ outcome.tweetUrl = <<"h", "t", "t", "p", "s", ":", "/", "/", "t", "w", "i", "t", "t", "e", "r", ".", "c", "o", "m", "/", "i", "/", "w", "e", "b", "/", "s", "t", "a", "t", "u", "s", "/">> \o outcome.tweetId
       /\ ~outcome.success => Len(outcome.error) > 0 /\ outcome.tweetId = <<>>

C10_Witness ==
  /\ ppc = "done"
  /\ ~outcome.success
  /\ StartsWith(outcome.error, <<"I", "m", "a", "g", "e", " ", "v", "a", "l", "i", "d", "a", "t", "i", "o", "n", " ", "f", "a", "i", "l", "e", "d", ":", " ">>)
  /\ Len(TweetCalls) = 0

\* the probe or the transfer fails, or the argument is no string
ValidationFails ==
  \/ vIn.kind # "string"
  \/ Len(vIn.get.error) > 0
  \/ vIn.get.body.length > FiveMiB
  \/ ~IsHttpUrl(vIn.url)

\* C11: validateAndTestImage never throws: every call ends with a result; a result
\* that is not valid carries a non-empty reason; and an argument that is no string,
\* a failed transfer (timeout, transport error, HTTP error status) or a payload over
\* the byte ceiling gives valid:false.
C11_ValidateNeverThrows ==
  vOut.done =>
    /\ ~vOut.result.thrown
    /\ ~vOut.result.valid => Len(vOut.result.reason) > 0
    /\ ValidationFails => ~vOut.result.valid

C11_Witness ==
  /\ vOut.done
  /\ vIn.kind = "undefined"
  /\ ~vOut.result.valid
  /\ ~vOut.result.thrown
  /\ Len(vOut.result.reason) > 0

\* the probe fails: the HEAD request is rejected, or cannot be issued for the URL
ProbeFails == ~vIn.head.ok \/ ~IsHttpUrl(vIn.url)

\* what the downloaded payload alone decides
PayloadIsGood ==
  /\ IsHttpUrl(vIn.url)
  /\ Len(vIn.get.error) = 0
  /\ vIn.get.body.length > 0
  /\ vIn.get.body.length <= FiveMiB
  /\ HasSupportedSignature(vIn.get.body)

\* C15: when the probe fails, for a URL that passes the URL checks, the transfer
\* is still performed and the result is decided by the payload alone: valid
\* exactly when the transfer succeeds with a non-empty payload of a supported
\* signature.
C15_ProbeFailureNotFatal ==
  (vOut.done /\ vIn.kind = "string" /\ IsParsableUrl(vIn.url) /\ ~IsProblematicUrl(vIn.url)
     /\ ProbeFails) =>
    /\ vOut.result.transfers = 1
    /\ vOut.result.valid = PayloadIsGood
    /\ vOut.result.valid => vOut.result.buffer = vIn.get.body

C15_Witness ==
  /\ vOut.done
  /\ ~vIn.head.ok
  /\ IsHttpUrl(vIn.url)
  /\ vOut.result.transfers = 1
  /\ vOut.result.valid
  /\ vIn.get.body = Gif(MaxImageLen)

\* every article of the batch fails the filter or the validation of its image
NothingToPick ==
  \A i \in 1..Len(batch.items) :
    ~IsCandidate(batch.items[i]) \/ ~ImageValidates(batch.items[i])

\* C12: pickBestArticle raises no exception, and it returns null for an absent
\* batch, an empty batch, and a batch (null entries included) in which every
\* article fails the completeness filter or the validation of its image.
C12_NullWithoutException ==
  /\ spc \in {"idle", "start", "loop", "done"}
  /\ (spc = "done" /\ (batch.absent \/ Len(batch.items) = 0 \/ NothingToPick)) =>
       picked.nil

\* a null entry, then a complete article whose image is unreachable
C12_Witness ==
  /\ spc = "done"
  /\ picked.nil
  /\ Len(batch.items) = 2
  /\ batch.items[1].nil
  /\ IsCandidate(batch.items[2])
  /\ Len(tried) = 1
  /\ ~tried[1].valid

\* the place of an article in the input batch
PositionOf(a) == CHOOSE i \in 1..Len(batch.items) : batch.items[i] = a

\* C17: the candidates are ranked by descending content length, two candidates of
\* equal content length in the order they have in the input batch, and the loop
\* tries them in that order.
C17_StableDescendingOrder ==
  spc \in {"loop", "done"} =>
    /\ \A j, k \in 1..Len(sorted) :
         j < k =>
           \/ ContentLength(sorted[j]) > ContentLength(sorted[k])
           \/ /\ ContentLength(sorted[j]) = ContentLength(sorted[k])
              /\ PositionOf(sorted[j]) < PositionOf(sorted[k])
    /\ \A k \in 1..Len(tried) :
         tried[k].rank = k /\ tried[k].title = sorted[k].title

\* three candidates tried, the first two of equal content length, the third shorter
C17_Witness ==
  /\ spc = "done"
  /\ Len(tried) >= 3
  /\ ContentLength(sorted[1]) = ContentLength(sorted[2])
  /\ PositionOf(sorted[1]) < PositionOf(sorted[2])
  /\ ContentLength(sorted[2]) > ContentLength(sorted[3])
  /\ tried[2].title = sorted[2].title

\* C13: postToX measures the composed text before any transmission: no media
\* upload and no create-post call is issued while the text is longer than 280
\* characters, the text posted is the text measured, and an over-budget text ends
\* the call with a failure and no upload or create-post call.
C13_LengthCheckedBeforeTransmission ==
  /\ \A i \in 1..Len(calls) :
       /\ calls[i].op \in {"uploadMedia", "tweet"} => Len(tweetText) <= maxTweetLength
       /\ calls[i].op = "tweet" => calls[i].text = tweetText
  /\ Len(tweetText) > maxTweetLength =>
       /\ ppc = "done"
       /\ ~outcome.success
       /\ outcome.error = <<"T", "w", "e", "e", "t", " ", "t", "o", "o", " ", "l", "o", "n", "g">>
       /\ calls = <<>>

C13_Witness ==
  /\ ppc = "done"
  /\ Len(tweetText) > maxTweetLength
  /\ EndsWith(tweetText, createPostUrl(article, platform.today))
  /\ ~outcome.success
  /\ calls = <<>>

\* the tail of the composed text: the link tail, or the hashtags after a blank line
ComposeTail ==
  IF cOut.variant = "link" THEN ReadMore(cIn.link)
  ELSE IF Len(selectSmartHashtags(cIn)) > 0 THEN <<"\n", "\n">> \o selectSmartHashtags(cIn)
  ELSE <<>>

\* the title alone is too long for title and tail to fit in the budget
TitleTooLong == Len(cIn.title) + Len(ComposeTail) > maxTweetLength

\* the text is a cut of the title, the ellipsis and the whole tail
TruncatedTitleThenTail ==
  LET cut == Len(cOut.text) - Len(ComposeTail) - 3
  IN /\ cut >= 0
     /\ \E n \in cut..Len(cIn.title) :
          cOut.text = Trim(SubSeq(cIn.title, 1, n)) \o <<".", ".", ".">> \o ComposeTail

\* C14: when the title alone is too long for title and tail to fit in 280
\* characters, createTweetText returns the truncated title, an ellipsis and the
\* complete tail (the link tail or the hashtags).
C14_TruncatedTitleKeepsTail ==
  cOut.variant # "none" /\ TitleTooLong => TruncatedTitleThenTail

\* the link variant does keep its tail
LinkVariantKeepsTail ==
  cOut.variant = "link" /\ TitleTooLong => TruncatedTitleThenTail

\* the platform calls of the run that were rejected with a permanent error: an
\* HTTP answer of the platform, as opposed to a transport failure
IsPermanent(error) == error.type = "response" /\ error.code # 0
PermanentFailures ==
  {platform.uploads[k].error : k \in {k \in 1..Len(UploadCalls) : ~platform.uploads[k].ok}}
    \cup (IF Len(TweetCalls) > 0 /\ ~platform.tweet.ok THEN {platform.tweet.error} ELSE {})

\* C16: when uploadMedia or v2.tweet is rejected with a permanent platform
\* error, postToX returns a failure whose details are the code, data and errors
\* of that error and whose reason is its message; it never returns success.
C16_PermanentErrorCarriesPayload ==
  \A e \in PermanentFailures :
    IsPermanent(e) /\ ppc = "done" =>
      /\ outcome.kind = "returned"
      /\ ~outcome.success
      /\ outcome.error = e.message
      /\ outcome.details = [code |-> e.code, data |-> e.data, errors |-> e.errors]

C16_Witness ==
  /\ ppc = "done"
  /\ Len(TweetCalls) = 1
  /\ ~platform.tweet.ok
  /\ IsPermanent(platform.tweet.error)
  /\ outcome.details.code = 429
  /\ outcome.details.data = "Too Many Requests"

TransfersOf(url) ==
  Cardinality({k \in 1..Len(tried) : tried[k].url = url /\ tried[k].transfers > 0})
    + Cardinality({k \in 1..Len(calls) : calls[k].op = "get"})

\* C19: when postToX is called with the article pickBestArticle returned, it uses
\* the buffer cached on the article and issues no probe and no transfer, so that
\* the image is transferred exactly once over selection and publication.
C19_ImageTransferredOnce ==
  postToXCalls > 0 =>
    /\ article = picked
    /\ \A k \in 1..Len(calls) : calls[k].op \notin {"head", "get"}
    /\ Len(UploadCalls) > 0 => imageBuffer = picked.validated.buffer
    /\ TransfersOf(ImageUrlToPost(article)) = 1

C19_Witness ==
  /\ hpc = "done"
  /\ postToXCalls = 1
  /\ outcome.success
  /\ Len(UploadCalls) = 1
  /\ imageBuffer = picked.validated.buffer
  /\ Len(tried) > 1
  /\ TransfersOf(ImageUrlToPost(article)) = 1

\* the run has selected nothing, or its call of postToX has failed
NothingPosted ==
  \/ hpc \in {"store", "done"} /\ postToXCalls = 0
  \/ hpc \in {"store", "done"} /\ ~outcome.success

\* C20: in one run of the handler a document is stored with postedToTwitter
\* true, a tweet id and a tweet URL only if postToX returned success in the run
\* for the article of that title; when the selection is null or postToX fails,
\* every sports document is stored with postedToTwitter false; and the run
\* calls postToX at most once.
C20_PostedFlagOnlyAfterSuccess ==
  /\ postToXCalls <= 1
  /\ \A k \in 1..Len(stored) :
       stored[k].postedToTwitter =>
         /\ postToXCalls = 1
         /\ outcome.kind = "returned" /\ outcome.success
         /\ stored[k].title = article.title
         /\ stored[k].tweetId = outcome.tweetId /\ Len(stored[k].tweetId) > 0
         /\ stored[k].tweetUrl = outcome.tweetUrl
  /\ NothingPosted =>
       \A k \in 1..Len(stored) :
         stored[k].category = "sport" => ~stored[k].postedToTwitter

C20_Witness ==
  /\ hpc = "done"
  /\ Len(stored) = 2
  /\ stored[1].postedToTwitter /\ stored[1].title = article.title
  /\ ~stored[2].postedToTwitter
  /\ outcome.success

\* the tags of a tag string, as a reader of the returned value separates them
TagsOf(tagString) ==
  IF Len(tagString) = 0 THEN <<>> ELSE Split(tagString, {" "}, FALSE)

\* C21: the string selectSmartHashtags returns holds at most 4 tags, and no tag
\* twice.
C21_AtMostFourDistinctTags ==
  cOut.variant = "tags" /\ cOut.calls = 1 =>
    LET Bounded(tags) ==
          /\ Len(tags) <= MaxTags
          /\ \A i, j \in 1..Len(tags) : i < j => tags[i] # tags[j]
    IN Bounded(TagsOf(selectSmartHashtags(cIn)))

C21_Witness ==
  /\ cOut.variant = "tags"
  /\ cIn.category = "sport"
  /\ Includes(cIn.title, <<"M", "e", "s", "s", "i">>) /\ Includes(cIn.title, <<"C", "h", "a", "m", "p", "i", "o", "n", "s", " ", "L", "e", "a", "g", "u", "e">>)
  /\ Includes(cIn.title, <<"h", "a", "t", "-", "t", "r", "i", "c", "k">>)
  /\ TagsOf(selectSmartHashtags(cIn)) = <<<<"#", "G", "O", "A", "T">>, <<"#", "U", "C", "L">>, <<"#", "C", "h", "a", "m", "p", "i", "o", "n", "s", "L", "e", "a", "g", "u", "e">>, <<"#", "G", "o", "a", "l", "s">>>>

\* the text is the title, a blank line, a snippet cut with an ellipsis, a blank
\* line and the link, the link with or without its "Read more: " label
TitleSnippetLink(text, title, link) ==
  \E tail \in {<<"\n", "\n">> \o link, ReadMore(link)} :
    /\ StartsWith(text, title \o <<"\n", "\n">>)
    /\ EndsWith(text, <<".", ".", ".">> \o tail)
    /\ Len(text) >= Len(title) + 2 + 3 + Len(tail)

\* C22: for a title of 40 characters, a body of 4000 and a link of 23, the
\* link variant of createTweetText returns the title, a blank line, a snippet
\* ending in an ellipsis, a blank line and the link, 260 to 280 characters in all.
C22_LongArticleScenario ==
  (/\ cOut.variant = "link"
   /\ Len(cIn.title) = 40 /\ Len(cIn.content) = 4000 /\ Len(cIn.link) = 23) =>
    /\ TitleSnippetLink(cOut.text, cIn.title, cIn.link)
    /\ Len(cOut.text) >= 260
    /\ Len(cOut.text) <= maxTweetLength

\* the scenario on a body whose first two sentences are longer than the room left
ScenarioOnLongSentences ==
  (/\ cOut.variant = "link"
   /\ cIn.content \in {Prose(<<>>, 4000), Words(4000)}) =>
    /\ TitleSnippetLink(cOut.text, cIn.title, cIn.link)
    /\ Len(cOut.text) >= 260
    /\ Len(cOut.text) <= maxTweetLength

\* the URL does not parse, or one of the rejection patterns matches it
RejectedUrl(url) ==
  \/ ~IsParsableUrl(url)
  \/ \E bad \in {<<"e", "x", "a", "m", "p", "l", "e", ".", "c", "o", "m">>, <<"p", "l", "a", "c", "e", "h", "o", "l", "d", "e", "r">>, <<"d", "u", "m", "m", "y">>, <<"t", "e", "s", "t", ".", "j", "p", "g">>} :
       Includes(ToLowerCase(url), bad)
  \/ EndsWith(ToLowerCase(url), <<".", "s", "v", "g">>)

\* C23: for a URL that is malformed or on the rejection list,
\* validateAndTestImage returns valid: false without a HEAD and without a GET
\* request.
C23_RejectedBeforeAnyRequest ==
  vOut.done /\ vIn.kind = "string" /\ RejectedUrl(vIn.url) =>
    /\ ~vOut.result.valid
    /\ ~vOut.result.thrown
    /\ vOut.result.probes = 0
    /\ vOut.result.transfers = 0
    /\ ~vOut.result.downloaded

C23_Witness ==
  /\ vOut.done
  /\ vIn.url = <<"h", "t", "t", "p", "s", ":", "/", "/", "c", "d", "n", ".", "s", "i", "t", "e", ".", "n", "g", "/", "D", "u", "m", "m", "y", "-", "i", "m", "a", "g", "e", ".", "p", "n", "g">>
  /\ vIn.head.ok /\ vIn.head.contentType = <<"i", "m", "a", "g", "e", "/", "p", "n", "g">>
  /\ Len(vIn.get.error) = 0 /\ isValidImage(vIn.get.body)
  /\ ~vOut.result.valid
  /\ vOut.result.probes = 0 /\ vOut.result.transfers = 0

\* C24: when uploadMedia fails with a transient transport error and postToX
\* makes no further attempt, the failure returned carries the reason and the
\* diagnostic of that error, unchanged.
C24_TransientUploadErrorAsIs ==
  (ppc = "done" /\ Len(UploadCalls) > 0 /\ IsTransient(platform.uploads[Len(UploadCalls)])) =>
    LET e == platform.uploads[Len(UploadCalls)].error
    IN /\ ~outcome.success
       /\ outcome.error = e.message
       /\ outcome.details = [code |-> e.code, data |-> e.data, errors |-> e.errors]

\* the candidate the loop was testing when pickBestArticle returned
Returned == sorted[idx + 1]

\* C25: for an article pickBestArticle returns, the URL validated, the
\* article's urlToImage and the URL postToX resolves from the article are one
\* URL, and the cached buffer is the payload served at that URL, also when the
\* article came with different image and urlToImage fields.
C25_OneImageUrl ==
  spc = "done" /\ ~picked.nil =>
    /\ tried[Len(tried)].url = ImageUrlToValidate(Returned)
    /\ picked.urlToImage = tried[Len(tried)].url
    /\ ImageUrlToPost(picked) = tried[Len(tried)].url
    /\ picked.cached
    /\ picked.validated.buffer = OriginOf(web, tried[Len(tried)].url).get.body
    /\ isValidImage(picked.validated.buffer)

C25_Witness ==
  /\ spc = "done"
  /\ ~picked.nil
  /\ Len(Returned.image) > 0 /\ Len(Returned.urlToImage) > 0
  /\ Returned.image # Returned.urlToImage
  /\ OriginOf(web, Returned.urlToImage) # OriginOf(web, Returned.image)
  /\ isValidImage(OriginOf(web, Returned.urlToImage).get.body)
  /\ picked.urlToImage = Returned.image
  /\ picked.validated.buffer = OriginOf(web, Returned.image).get.body

\* the format validateAndTestImage recognised in an accepted buffer
SniffedType(buffer) ==
  IF BytesAt(buffer, 0, <<255, 216, 255>>) THEN "image/jpeg"
  ELSE IF BytesAt(buffer, 0, <<137, 80, 78, 71>>) THEN "image/png"
  ELSE IF BytesAt(buffer, 0, <<71, 73, 70>>) THEN "image/gif"
  ELSE IF BytesAt(buffer, 8, <<87, 69, 66, 80>>) THEN "image/webp"
  ELSE "none"

\* C26: for a buffer validateAndTestImage accepts (JPEG, PNG, GIF or WebP), the
\* MIME type postToX passes to uploadMedia is the type of the format sniffed.
C26_UploadTypeIsSniffedType ==
  \A k \in 1..Len(calls) :
    calls[k].op = "uploadMedia" /\ isValidImage(imageBuffer) =>
      calls[k].mimeType = SniffedType(imageBuffer)

\* the three formats postToX knows are labelled as sniffed
UploadTypeRightButForWebP ==
  \A k \in 1..Len(calls) :
    calls[k].op = "uploadMedia" /\ isValidImage(imageBuffer)
      /\ SniffedType(imageBuffer) # "image/webp" =>
        calls[k].mimeType = SniffedType(imageBuffer)

\* C27: the dual-API handler reports twitterPosted: true only if a post was created on
\* the platform during the run, and false when no article was selected or postToX
\* ended in a failure outcome
PostCreated == \E k \in 1..Len(calls) : calls[k].op = "tweet" /\ calls[k].ok

C27_TwitterPostedOnlyAfterPost ==
  dpc = "done" /\ res.status = 200 =>
    /\ res.twitterPosted => PostCreated
    /\ outcome.kind = "returned" /\ ~outcome.success => ~res.twitterPosted

\* what the code does instead: every run that answers 200 reports twitterPosted: true,
\* and none has created a post
DualReportsPostWithoutPost ==
  dpc = "done" /\ res.status = 200 => res.twitterPosted /\ ~PostCreated

\* C28: after one run of the handler from a store without two documents of one title,
\* the store holds no two documents with the same title, also when the scraped sports
\* batch holds a title twice, and at most one document of the run is marked as posted
TitleStoredOnce ==
  /\ \A i, j \in 1..Len(stored) : i < j => stored[i].title # stored[j].title
  /\ \A i \in 1..Len(stored) : stored[i].title \notin hIn.library

C28_OneDocumentPerTitle ==
  hpc = "done" =>
    /\ TitleStoredOnce
    /\ Cardinality({i \in 1..Len(stored) : stored[i].postedToTwitter}) <= 1

\* what holds instead: a title is stored twice only when the sports batch holds it twice
SportsTitlesDiffer ==
  \A i, j \in 1..Len(hIn.sports) : i < j => hIn.sports[i].title # hIn.sports[j].title

OneDocumentPerTitleUnlessScrapedTwice ==
  hpc = "done" /\ SportsTitlesDiffer =>
    /\ TitleStoredOnce
    /\ Cardinality({i \in 1..Len(stored) : stored[i].postedToTwitter}) <= 1

\* C29: one call of postToX, in the versions that test the link with
\* shortenUrlIfBlocked, creates at most one post on the platform, and that post is the
\* composed article text: no other post is created as a side effect
C29_OnePostPerCall ==
  ppc = "done" =>
    /\ Len(Posts) <= 1
    /\ \A k \in 1..Len(Posts) : Posts[k].text = tweetText

\* what holds instead: besides the test post, at most one post, with the article text
OnePostBesidesTest ==
  ppc = "done" =>
    LET others == SelectSeq(Posts, LAMBDA c : ~StartsWith(c.text, <<"T", "e", "s", "t", "i", "n", "g", " ">>))
    IN /\ Len(others) <= 1
       /\ \A k \in 1..Len(others) : others[k].text = tweetText
       /\ Len(Posts) <= Len(others) + 1

\* C30: fetchFromNewsAPI and fetchFromNewsData issue at most retries requests per call,
\* a further request only after the previous one failed; they return the mapped
\* articles of the first successful request without further requests, the empty list
\* once all attempts have failed, they never throw, and every call terminates
Failed(answer) ==
  \/ ~answer.responded
  \/ ~answer.hasList
  \/ \E k \in 1..Len(answer.list) : answer.list[k].nil

ExpectedArticles(api, answer) ==
  [k \in 1..Len(answer.list) |->
     IF api = "NewsAPI"
     THEN [title |-> answer.list[k].title, description |-> answer.list[k].description,
           content |-> answer.list[k].content, urlToImage |-> answer.list[k].urlToImage,
           url |-> answer.list[k].url, source |-> answer.list[k].sourceName,
           author |-> answer.list[k].author, publishedAt |-> answer.list[k].publishedAt]
     ELSE [title |-> answer.list[k].title, description |-> answer.list[k].description,
           content |-> answer.list[k].content, urlToImage |-> answer.list[k].image_url,
           url |-> answer.list[k].link,
           source |-> IF Len(answer.list[k].source_name) > 0
                      THEN answer.list[k].source_name ELSE answer.list[k].source_id,
           author |-> IF Len(answer.list[k].creator) > 0
                      THEN answer.list[k].creator[1] ELSE <<>>,
           publishedAt |-> answer.list[k].pubDate]]

FetchWithinBounds ==
  /\ Len(requests) <= fIn.retries
  /\ \A k \in 2..Len(requests) : Failed(requests[k - 1])
  /\ fOut.kind # "thrown"
  /\ fpc = "done" =>
       /\ fOut.kind = "returned"
       /\ IF \E k \in 1..Len(requests) : ~Failed(requests[k])
          THEN /\ ~Failed(requests[Len(requests)])
               /\ fOut.articles = ExpectedArticles(fIn.api, requests[Len(requests)])
          ELSE /\ fOut.articles = <<>>
               /\ Len(requests) = fIn.retries

C30_BoundedRetriesAndTermination == []FetchWithinBounds /\ <>(fpc = "done")

C30_Witness ==
  /\ fpc = "done"
  /\ fIn.retries = 3
  /\ Len(requests) = 3
  /\ ~requests[1].responded
  /\ ~requests[2].hasList
  /\ Len(fOut.articles) = 2

====
